---- MODULE Spec2Model ----
(***************************************************************************)
(* Model of snapshot_grafana: the configuration validator (processConfig,  *)
(* processTakeConfig), the command line front end (parseAndValidateFlags), *)
(* the SnapClient constructor and the template substitutor.                *)
(*                                                                         *)
(* Go strings whose characters the code inspects (URL parts, slugs, flag   *)
(* values, dashboard text) are sequences of one-character strings; API     *)
(* keys and error messages, of which the code only takes the length, are   *)
(* TLA+ strings.  A *url.URL is an address into `heap`; a *time.Time is a  *)
(* sequence of length 0 (nil) or 1.                                        *)
(***************************************************************************)
EXTENDS Integers, Sequences, FiniteSets, TLC

VARIABLES
    heap,        \* the url.URL objects of the process, by address
    heap0,       \* the URL objects as they were when the caller built its Config
    callerCfg,   \* the Config struct the caller passes to NewSnapClient
    client,      \* the SnapClient: [made, config]
    cfgErr,      \* the error NewSnapClient returned ("" is nil)
    again,       \* processConfig applied to the client's own config: [done, cfg, err, urls]
    cfgPhase,    \* "new" | "validated" | "rejected"
    touched,     \* TRUE once the caller has written to a URL object after NewSnapClient
    flags,       \* the command line flag values
    cliErr,      \* the error parseAndValidateFlags returned
    takeIn,      \* the TakeConfig passed to Take
    takeOut,     \* the TakeConfig processTakeConfig returned
    takeErr,     \* the error processTakeConfig returned
    takePhase,   \* "new" | "validated" | "rejected"
    subText,     \* the raw dashboard text given to substituteVars
    subVars,     \* the variable mapping given to substituteVars
    subOrder,    \* the order in which the range statement visited the mapping
    subOut,      \* the text substituteVars returned
    subPhase,    \* "new" | "done"
    annResp,     \* what the annotations endpoint answers
    dashResp,    \* what the dashboard endpoint answers
    dsResp,      \* what the datasources endpoint answers
    promResp,    \* what the datasource proxy answers to a range query, by expr
    postResp,    \* what the snapshot endpoint answers
    reqLog,      \* the HTTP requests Take has sent, in order
    takeRes,     \* how Take ended: [state, stage, err, where, snapshot]
    calls,       \* the calls of the data point fetchers, with what they returned
    dsCache,     \* sc.datasourceCache
    dashPanels,  \* dash["dashboard"]["panels"] as the panel loop of Take left them
    run,         \* the calls of Take that run side by side: their local variables
    lastStored   \* the call that assigned sc.datasourceCache last (0: none)

cfgVars  == <<heap, heap0, callerCfg, client, cfgErr, again, cfgPhase, touched>>
cliVars  == <<flags, cliErr>>
takeVars == <<takeIn, takeOut, takeErr, takePhase>>
substVars == <<subText, subVars, subOrder, subOut, subPhase>>
envVars  == <<annResp, dashResp, dsResp, promResp, postResp>>
pipeVars == <<envVars, reqLog, takeRes, calls, dsCache, dashPanels, run, lastStored>>
vars     == <<cfgVars, cliVars, takeVars, substVars, pipeVars>>

-----------------------------------------------------------------------------
(* Strings *)

Nil == "nil"

\* strings.HasSuffix(s, suffix)
HasSuffix(s, suffix) ==
    /\ Len(s) >= Len(suffix)
    /\ SubSeq(s, Len(s) - Len(suffix) + 1, Len(s)) = suffix

\* strings.HasPrefix as used by strings.Replace / url.Parse: s[i..] starts with p
HasPrefixAt(s, i, p) ==
    /\ i + Len(p) - 1 <= Len(s)
    /\ SubSeq(s, i, i + Len(p) - 1) = p

\* strings.Index(s, " ") != -1
ContainsSpace(s) == \E i \in 1..Len(s) : s[i] = " "

-----------------------------------------------------------------------------
(* url.URL *)

EmptyURL == [Scheme |-> <<>>, Host |-> <<>>, Path |-> <<>>]

\* (*url.URL).String(): scheme ":" , "//" before a host, the host, the path
\* (with "/" put before a rootless path that follows a host).
URLString(u) ==
    LET scheme == IF u.Scheme # <<>> THEN u.Scheme \o <<":">> ELSE <<>>
        slashes == IF (u.Scheme # <<>> \/ u.Host # <<>>) /\ (u.Host # <<>> \/ u.Path # <<>>)
                   THEN <<"/", "/">> ELSE <<>>
        sep     == IF u.Path # <<>> /\ u.Path[1] # "/" /\ u.Host # <<>>
                   THEN <<"/">> ELSE <<>>
    IN  scheme \o slashes \o u.Host \o sep \o u.Path

\* configIn.X == nil || len(configIn.X.String()) == 0
AddrMissing(p, h) == p = Nil \/ Len(URLString(h[p])) = 0

\* if !strings.HasSuffix(u.Path, "/") { u.Path = u.Path + "/" }, on the object at p
AppendSlashMut(p, h) == [h EXCEPT ![p].Path = @ \o <<"/">>]

AppendSlash(p, h) ==
    IF ~HasSuffix(h[p].Path, <<"/">>) THEN [h EXCEPT ![p].Path = @ \o <<"/">>] ELSE h

-----------------------------------------------------------------------------
(* snapshot.Config and processConfig *)

ZeroConfig ==
    [GrafanaAPIKey |-> "", SnapshotAPIKey |-> "", GrafanaAddr |-> Nil, SnapshotAddr |-> Nil]

\* len(configIn.GrafanaAPIKey) == 0
MissingGrafanaAPIKeyMut(configIn) == FALSE

MissingGrafanaAPIKey(configIn) == Len(configIn.GrafanaAPIKey) = 0

\* the pointer stored in configOut.SnapshotAddr
SnapshotAddrOfMut(configIn, h) ==
    IF configIn.SnapshotAddr = Nil THEN configIn.GrafanaAddr ELSE configIn.SnapshotAddr

SnapshotAddrOf(configIn, h) ==
    IF AddrMissing(configIn.SnapshotAddr, h)
    THEN configIn.GrafanaAddr
    ELSE configIn.SnapshotAddr

\* the string stored in configOut.SnapshotAPIKey
SnapshotAPIKeyOf(configIn) ==
    IF Len(configIn.SnapshotAPIKey) = 0
    THEN configIn.GrafanaAPIKey
    ELSE configIn.SnapshotAPIKey

\* processConfig(configIn): the returned *Config (ZeroConfig stands for nil), the
\* returned error ("" for nil) and the URL objects after the call.  configOut
\* holds the caller's own pointers, so the Path writes land in the caller's objects.
processConfig(configIn, h) ==
    IF AddrMissing(configIn.GrafanaAddr, h)
    THEN [cfg |-> ZeroConfig, heap |-> h,
          err |-> "Missing required Config field: GrafanaAddr"]
    ELSE LET h1 == AppendSlash(configIn.GrafanaAddr, h) IN
         IF MissingGrafanaAPIKey(configIn)
         THEN [cfg |-> ZeroConfig, heap |-> h1,
               err |-> "Missing required Config field: GrafanaAPIKey"]
         ELSE LET sAddr == SnapshotAddrOf(configIn, h1) IN
              [cfg  |-> [GrafanaAPIKey  |-> configIn.GrafanaAPIKey,
                         SnapshotAPIKey |-> SnapshotAPIKeyOf(configIn),
                         GrafanaAddr    |-> configIn.GrafanaAddr,
                         SnapshotAddr   |-> sAddr],
               heap |-> AppendSlash(sAddr, h1),
               err  |-> ""]

\* A Config read through its pointers: the values a reader of the struct sees.
ConfigView(c, h) ==
    [GrafanaAPIKey  |-> c.GrafanaAPIKey,
     SnapshotAPIKey |-> c.SnapshotAPIKey,
     GrafanaAddr    |-> IF c.GrafanaAddr = Nil THEN EmptyURL ELSE h[c.GrafanaAddr],
     SnapshotAddr   |-> IF c.SnapshotAddr = Nil THEN EmptyURL ELSE h[c.SnapshotAddr]]

\* reqURL := *sc.config.GrafanaAddr and reqURL := *sc.config.SnapshotAddr: the
\* base addresses a Take call on the client copies out of the client's config.
reqURLs ==
    [grafana  |-> IF client.made THEN heap[client.config.GrafanaAddr] ELSE EmptyURL,
     snapshot |-> IF client.made THEN heap[client.config.SnapshotAddr] ELSE EmptyURL]

-----------------------------------------------------------------------------
(* Library callers of NewSnapClient *)

Addrs == {"u1", "u2"}

HostG == <<"g">>
HostS == <<"s">>
Http  == <<"h", "t", "t", "p">>

\* The URL values a caller may hold.
URLs ==
    {EmptyURL, [Scheme |-> <<>>, Host |-> <<>>, Path |-> <<"a">>]}
    \cup {[Scheme |-> Http, Host |-> HostG, Path |-> p] :
             p \in {<<>>, <<"/">>, <<"/", "a">>, <<"/", "a", "/">>}}
    \cup {[Scheme |-> Http, Host |-> HostS, Path |-> p] : p \in {<<>>, <<"/">>}}

\* The values a caller writes into a URL object it still holds.
WrittenURLs ==
    {EmptyURL, [Scheme |-> Http, Host |-> HostS, Path |-> <<"/", "x">>]}

APIKeys == {"", "k", "z"}

Configs ==
    [GrafanaAPIKey : {"", "k"}, SnapshotAPIKey : APIKeys,
     GrafanaAddr : Addrs \cup {Nil}, SnapshotAddr : Addrs \cup {Nil}]

NoClient == [made |-> FALSE, config |-> ZeroConfig]
NotAgain == [done |-> FALSE, err |-> "", first |-> ConfigView(ZeroConfig, <<>>),
             second |-> ConfigView(ZeroConfig, <<>>)]

\* NewSnapClient(config): processConfig, then &SnapClient{c, nil} unless it failed.
NewSnapClient ==
    /\ cfgPhase = "new"
    /\ LET r == processConfig(callerCfg, heap) IN
         /\ heap' = r.heap
         /\ cfgErr' = r.err
         /\ client' = [made |-> r.err = "", config |-> r.cfg]
         /\ cfgPhase' = IF r.err = "" THEN "validated" ELSE "rejected"
    /\ UNCHANGED <<heap0, callerCfg, again, touched, cliVars, takeVars, substVars, pipeVars>>

\* processConfig applied to the config a first call returned.
ProcessConfigAgain ==
    /\ cfgPhase = "validated"
    /\ ~touched
    /\ ~again.done
    /\ LET r == processConfig(client.config, heap) IN
         /\ heap' = r.heap
         /\ again' = [done |-> TRUE, err |-> r.err,
                      first |-> ConfigView(client.config, heap),
                      second |-> ConfigView(r.cfg, r.heap)]
    /\ UNCHANGED <<heap0, callerCfg, client, cfgErr, cfgPhase, touched,
                   cliVars, takeVars, substVars, pipeVars>>

\* The caller writes to a url.URL it passed to NewSnapClient.
CallerWritesURL ==
    /\ cfgPhase = "validated"
    /\ ~touched
    /\ \E p \in {callerCfg.GrafanaAddr, callerCfg.SnapshotAddr} \ {Nil} :
       \E u \in WrittenURLs :
           heap' = [heap EXCEPT ![p] = u]
    /\ touched' = TRUE
    /\ UNCHANGED <<heap0, callerCfg, client, cfgErr, again, cfgPhase,
                   cliVars, takeVars, substVars, pipeVars>>

-----------------------------------------------------------------------------
(* time.Time: seconds after the model's epoch, 00:00:00 of the Epoch date *)

Epoch == <<2017, 2, 27>>
SecondsPerDay == 24 * 3600
TimeGrain == 6 * 3600
MaxTick == 9

Times == {k * TimeGrain : k \in 0..MaxTick}

\* (Time).Before
BeforeMut(t, u) == t <= u

Before(t, u) == t < u

IsLeap(y) == (y % 4 = 0 /\ y % 100 # 0) \/ y % 400 = 0

DaysInMonth(y, m) ==
    IF m = 2 THEN (IF IsLeap(y) THEN 29 ELSE 28)
    ELSE IF m \in {4, 6, 9, 11} THEN 30 ELSE 31

\* The date n days after the first day of month m of year y.
RECURSIVE CivilFrom(_, _, _)
CivilFrom(y, m, n) ==
    IF n < DaysInMonth(y, m) THEN <<y, m, n + 1>>
    ELSE CivilFrom(IF m = 12 THEN y + 1 ELSE y, IF m = 12 THEN 1 ELSE m + 1,
                   n - DaysInMonth(y, m))

\* The calendar date of an instant.
DateOf(t) == CivilFrom(Epoch[1], Epoch[2], Epoch[3] - 1 + (t \div SecondsPerDay))

Digit(n) == <<"0", "1", "2", "3", "4", "5", "6", "7", "8", "9">>[n + 1]

\* n in decimal, zero-padded to w digits
RECURSIVE Decimal(_, _)
Decimal(n, w) == IF w = 0 THEN <<>> ELSE Decimal(n \div 10, w - 1) \o <<Digit(n % 10)>>

\* t.Format("2006-01-02")
FormatDate(t) ==
    LET d == DateOf(t) IN
    Decimal(d[1], 4) \o <<"-">> \o Decimal(d[2], 2) \o <<"-">> \o Decimal(d[3], 2)

-----------------------------------------------------------------------------
(* snapshot.TakeConfig and processTakeConfig *)

NilVars == [nil |-> TRUE, kv |-> <<>>]
EmptyVars == [nil |-> FALSE, kv |-> <<>>]

ZeroTakeConfig ==
    [DashSlug |-> <<>>, From |-> <<>>, To |-> <<>>, Vars |-> NilVars,
     Expires |-> 0, SnapshotName |-> <<>>]

\* len(configIn.DashSlug) == 0
MissingDashSlugMut(configIn) == FALSE

MissingDashSlug(configIn) == Len(configIn.DashSlug) = 0

\* the time whose date starts the default SnapshotName
NameTimeMut(configIn) == configIn.From[1]

NameTime(configIn) == configIn.To[1]

\* fmt.Sprintf("%s %s", configIn.To.Format("2006-01-02"), configIn.DashSlug)
DefaultName(configIn) == FormatDate(NameTime(configIn)) \o <<" ">> \o configIn.DashSlug

\* processTakeConfig(configIn): the returned *TakeConfig (ZeroTakeConfig stands for
\* nil) and the returned error ("" for nil).
processTakeConfig(configIn) ==
    IF MissingDashSlug(configIn)
    THEN [cfg |-> ZeroTakeConfig, err |-> "Missing required Config field: DashSlug"]
    ELSE IF configIn.From = <<>>
    THEN [cfg |-> ZeroTakeConfig, err |-> "Missing required Config field: From"]
    ELSE IF configIn.To = <<>>
    THEN [cfg |-> ZeroTakeConfig, err |-> "Missing required Config field: To"]
    ELSE IF ~Before(configIn.From[1], configIn.To[1])
    THEN [cfg |-> ZeroTakeConfig,
          err |-> "TakeConfig To field must come cronologically after From"]
    ELSE [cfg |-> [DashSlug     |-> configIn.DashSlug,
                   From         |-> configIn.From,
                   To           |-> configIn.To,
                   Vars         |-> IF configIn.Vars.nil THEN EmptyVars ELSE configIn.Vars,
                   Expires      |-> IF configIn.Expires < 0 THEN 0 ELSE configIn.Expires,
                   SnapshotName |-> IF Len(configIn.SnapshotName) = 0
                                    THEN DefaultName(configIn)
                                    ELSE configIn.SnapshotName],
          err |-> ""]

\* reqURL.Path + "api/dashboards/db/" + config.DashSlug, after the base path
dashboardPath ==
    <<"a", "p", "i", "/", "d", "a", "s", "h", "b", "o", "a", "r", "d", "s", "/", "d", "b", "/">>
    \o takeOut.DashSlug

Slugs == {<<>>, <<"d">>, <<"d", "-", "b">>, <<"d", " ", "b">>}
SnapshotNames == {<<>>, <<"N">>}
OptTimes == {<<>>} \cup {<<t>> : t \in Times}

TakeConfigs ==
    [DashSlug : Slugs, From : OptTimes, To : OptTimes,
     Vars : {NilVars, [nil |-> FALSE, kv |-> (<<"a">> :> <<"X">>)]},
     Expires : {-1, 3600}, SnapshotName : SnapshotNames]

\* The head of SnapClient.Take (and TestProcessTakeConfig): processTakeConfig(config).
TakeValidate ==
    /\ takePhase = "new"
    /\ cfgPhase \in {"none", "validated"}
    /\ LET r == processTakeConfig(takeIn) IN
         /\ takeOut' = r.cfg
         /\ takeErr' = r.err
         /\ takePhase' = IF r.err = "" THEN "validated" ELSE "rejected"
    /\ UNCHANGED <<takeIn, cfgVars, cliVars, substVars, pipeVars>>

-----------------------------------------------------------------------------
(* substituteVars *)

\* strings.Replace(s, old, new, -1) from position i on, for a non-empty old
RECURSIVE ReplaceFrom(_, _, _, _)
ReplaceFrom(s, i, old, new) ==
    IF i > Len(s) THEN <<>>
    ELSE IF HasPrefixAt(s, i, old)
         THEN new \o ReplaceFrom(s, i + Len(old), old, new)
         ELSE <<s[i]>> \o ReplaceFrom(s, i + 1, old, new)

ReplaceAll(s, old, new) == ReplaceFrom(s, 1, old, new)

\* The loop of substituteVars with the keys visited in the order `order`.
RECURSIVE substituteVars(_, _, _)
substituteVars(kv, order, dashboardString) ==
    IF order = <<>> THEN dashboardString
    ELSE LET k == Head(order) IN
         substituteVars(kv, Tail(order), ReplaceAll(dashboardString, <<"$">> \o k, kv[k]))

\* The orders in which a range statement may visit the keys of a map.
Orders(kv) ==
    LET D == DOMAIN kv
        n == Cardinality(D)
    IN  {o \in [1..n -> D] : \A i, j \in 1..n : o[i] = o[j] => i = j}

MaxTextLen == 3
TextChars == {"$", "a", "b", "x"}
Texts == UNION {[1..n -> TextChars] : n \in 0..MaxTextLen}
VarNames == {<<"a">>, <<"a", "b">>, <<"b">>}
VarValues == {<<"X">>, <<"$", "b">>}
VarMaps == UNION {[D -> VarValues] : D \in SUBSET VarNames}

\* sc.substituteVars(c, rawDashString) in Take
SubstituteVars ==
    /\ subPhase = "new"
    /\ \E o \in Orders(subVars) :
         /\ subOrder' = o
         /\ subOut' = substituteVars(subVars, o, subText)
    /\ subPhase' = "done"
    /\ UNCHANGED <<subText, subVars, cfgVars, cliVars, takeVars, pipeVars>>

-----------------------------------------------------------------------------
(* The command line: url.Parse, time.Parse, the template_vars syntax *)

Letters ==
    {"a", "b", "c", "d", "e", "f", "g", "h", "i", "j", "k", "l", "m",
     "n", "o", "p", "q", "r", "s", "t", "u", "v", "w", "x", "y", "z"}
DigitChars == {"0", "1", "2", "3", "4", "5", "6", "7", "8", "9"}

\* strings.Index(s, c) for a one-character c, counted from 1; 0 when absent
IndexOf(s, c) ==
    IF \E i \in 1..Len(s) : s[i] = c
    THEN CHOOSE i \in 1..Len(s) : s[i] = c /\ \A j \in 1..(i - 1) : s[j] # c
    ELSE 0

\* net/url getScheme: the scheme before the first ":" and the rest
RECURSIVE getScheme(_, _)
getScheme(rawURL, i) ==
    IF i > Len(rawURL) THEN [err |-> FALSE, scheme |-> <<>>, rest |-> rawURL]
    ELSE IF rawURL[i] \in Letters THEN getScheme(rawURL, i + 1)
    ELSE IF rawURL[i] \in DigitChars \cup {"+", "-", "."}
         THEN IF i = 1 THEN [err |-> FALSE, scheme |-> <<>>, rest |-> rawURL]
              ELSE getScheme(rawURL, i + 1)
    ELSE IF rawURL[i] = ":"
         THEN IF i = 1 THEN [err |-> TRUE, scheme |-> <<>>, rest |-> rawURL]
              ELSE [err |-> FALSE, scheme |-> SubSeq(rawURL, 1, i - 1),
                    rest |-> SubSeq(rawURL, i + 1, Len(rawURL))]
    ELSE [err |-> FALSE, scheme |-> <<>>, rest |-> rawURL]

\* url.Parse(rawURL) for raw URLs without query, fragment, userinfo or opaque part
urlParse(rawURL) ==
    LET g == getScheme(rawURL, 1)
        rest == g.rest
        seg == IF IndexOf(rest, "/") = 0 THEN rest ELSE SubSeq(rest, 1, IndexOf(rest, "/") - 1)
    IN  IF g.err THEN [err |-> TRUE, url |-> EmptyURL]
        ELSE IF g.scheme = <<>> /\ ~HasPrefixAt(rest, 1, <<"/">>) /\ IndexOf(seg, ":") # 0
        THEN [err |-> TRUE, url |-> EmptyURL]
        ELSE IF (g.scheme # <<>> \/ ~HasPrefixAt(rest, 1, <<"/", "/", "/">>))
                /\ HasPrefixAt(rest, 1, <<"/", "/">>)
        THEN LET auth == SubSeq(rest, 3, Len(rest))
                 j == IndexOf(auth, "/")
             IN  [err |-> FALSE,
                  url |-> [Scheme |-> g.scheme,
                           Host |-> IF j = 0 THEN auth ELSE SubSeq(auth, 1, j - 1),
                           Path |-> IF j = 0 THEN <<>> ELSE SubSeq(auth, j, Len(auth))]]
        ELSE [err |-> FALSE, url |-> [Scheme |-> g.scheme, Host |-> <<>>, Path |-> rest]]

DigitValue(c) == CHOOSE n \in 0..9 : Digit(n) = c

\* strconv-style value of a run of decimal digits
RECURSIVE Number(_)
Number(ds) ==
    IF ds = <<>> THEN 0
    ELSE 10 * Number(SubSeq(ds, 1, Len(ds) - 1)) + DigitValue(ds[Len(ds)])

\* days from the first of month (y0, m0) to the first of month (y, m), not earlier
RECURSIVE MonthsTo(_, _, _, _)
MonthsTo(y0, m0, y, m) ==
    IF y0 = y /\ m0 = m THEN 0
    ELSE DaysInMonth(y0, m0)
         + MonthsTo(IF m0 = 12 THEN y0 + 1 ELSE y0, IF m0 = 12 THEN 1 ELSE m0 + 1, y, m)

DaysFromEpoch(y, m, d) ==
    (IF y < Epoch[1] \/ (y = Epoch[1] /\ m < Epoch[2])
     THEN 0 - MonthsTo(y, m, Epoch[1], Epoch[2])
     ELSE MonthsTo(Epoch[1], Epoch[2], y, m))
    + d - Epoch[3]

\* time.Parse("2006-01-02 15:04:05", value): <<>> when it fails
timeParse(value) ==
    LET digitsAt == {1, 2, 3, 4, 6, 7, 9, 10, 12, 13, 15, 16, 18, 19}
        shaped == /\ Len(value) = 19
                  /\ \A i \in digitsAt : value[i] \in DigitChars
                  /\ value[5] = "-" /\ value[8] = "-" /\ value[11] = " "
                  /\ value[14] = ":" /\ value[17] = ":"
        y  == Number(SubSeq(value, 1, 4))
        mo == Number(SubSeq(value, 6, 7))
        d  == Number(SubSeq(value, 9, 10))
        h  == Number(SubSeq(value, 12, 13))
        mi == Number(SubSeq(value, 15, 16))
        sc == Number(SubSeq(value, 18, 19))
    IN  IF ~shaped THEN <<>>
        ELSE IF mo \notin 1..12 \/ d < 1 \/ d > DaysInMonth(y, mo)
                \/ h > 23 \/ mi > 59 \/ sc > 59 THEN <<>>
        ELSE <<DaysFromEpoch(y, mo, d) * SecondsPerDay + h * 3600 + mi * 60 + sc>>

\* strings.Split(s, sep) for a one-character sep
RECURSIVE Split(_, _)
Split(s, sep) ==
    LET i == IndexOf(s, sep) IN
    IF i = 0 THEN <<s>>
    ELSE <<SubSeq(s, 1, i - 1)>> \o Split(SubSeq(s, i + 1, Len(s)), sep)

\* The template_vars loop over the ";"-separated pairs, from pair i on.
RECURSIVE parseVars(_, _, _)
parseVars(pairs, i, kv) ==
    IF i > Len(pairs) THEN [err |-> "", kv |-> kv]
    ELSE IF Len(pairs[i]) > 2
         THEN LET pairA == Split(pairs[i], "=") IN
              IF Len(pairA) # 2
              THEN [err |-> "template_vars contained an invalid pairing", kv |-> kv]
              ELSE parseVars(pairs, i + 1,
                             (pairA[1] :> pairA[2]) @@ [k \in DOMAIN kv \ {pairA[1]} |-> kv[k]])
         ELSE parseVars(pairs, i + 1, kv)

GAddrPlain == <<"h", "t", "t", "p", ":", "/", "/", "g">>
GAddrSlash == <<"h", "t", "t", "p", ":", "/", "/", "g", "/">>
SAddrOther == <<"h", "t", "t", "p", ":", "/", "/", "s">>
BadAddr    == <<":", "g">>
StampA     == <<"2", "0", "1", "7", "-", "0", "2", "-", "2", "7", " ", "1", "8", ":", "0", "0", ":", "0", "0">>
StampB     == <<"2", "0", "1", "7", "-", "0", "2", "-", "2", "8", " ", "0", "6", ":", "0", "0", ":", "0", "0">>
StampC     == <<"2", "0", "1", "7", "-", "0", "3", "-", "0", "1", " ", "0", "0", ":", "0", "0", ":", "0", "0">>
BadStamp   == <<"n", "o", "w">>

FlagSets ==
    [grafana_addr : {GAddrPlain, GAddrSlash, BadAddr},
     grafana_api_key : {"", "k"},
     snapshot_addr : {<<>>, GAddrSlash, SAddrOther},
     snapshot_api_key : {"", "z"},
     dashboard_slug : {<<>>, <<"d">>, <<"d", " ", "b">>},
     snapshot_expires : {0},
     snapshot_name : SnapshotNames,
     from : {StampA, StampB, BadStamp},
     to : {StampB, StampC},
     template_vars : {<<>>, <<"a", "b", "=", "X">>, <<"a", "=", "b", "=", "c">>}]

NoFlags ==
    [grafana_addr |-> <<>>, grafana_api_key |-> "", snapshot_addr |-> <<>>,
     snapshot_api_key |-> "", dashboard_slug |-> <<>>, snapshot_expires |-> 0,
     snapshot_name |-> <<>>, from |-> <<>>, to |-> <<>>, template_vars |-> <<>>]

\* config.GrafanaAddr == config.SnapshotAddr: equality of two *url.URL pointers
SamePointer(p, q) == p = q

\* parseAndValidateFlags(): the error ("" for nil), the flag variables after the
\* call (it writes its defaults back into them), the Config and TakeConfig it
\* returns, and the URL objects it allocated: gURL at "u1", sURL at "u2".
parseAndValidateFlags(f, h) ==
    LET fail(msg, ff) == [err |-> msg, flags |-> ff, config |-> ZeroConfig,
                          take |-> ZeroTakeConfig, heap |-> h]
        g == urlParse(f.grafana_addr)
        f1 == IF Len(f.snapshot_addr) = 0 THEN [f EXCEPT !.snapshot_addr = f.grafana_addr] ELSE f
        s == urlParse(f1.snapshot_addr)
        h1 == AppendSlash("u1", [h EXCEPT !["u1"] = g.url])
        h2 == AppendSlash("u2", [h1 EXCEPT !["u2"] = s.url])
        f2 == IF SamePointer("u1", "u2")
              THEN [f1 EXCEPT !.snapshot_api_key = f1.grafana_api_key] ELSE f1
        from == timeParse(f2.from)
        to == timeParse(f2.to)
        f3 == IF Len(f2.snapshot_name) = 0
              THEN [f2 EXCEPT !.snapshot_name =
                       FormatDate(to[1]) \o <<" ">> \o f2.dashboard_slug]
              ELSE f2
        v == parseVars(Split(f3.template_vars, ";"), 1, <<>>)
    IN  IF g.err THEN fail("grafana_addr: parse error", f)
        ELSE IF Len(f.grafana_api_key) = 0 THEN fail("grafana_api_key cannot be empty", f)
        ELSE IF s.err THEN fail("snapshot_addr: parse error", f1)
        ELSE IF Len(f2.dashboard_slug) = 0 THEN fail("dashboard_slug cannot be empty", f2)
        ELSE IF ContainsSpace(f2.dashboard_slug)
             THEN fail("dashboard_slug contained an invalid character", f2)
        ELSE IF from = <<>> THEN fail("from: parse error", f2)
        ELSE IF to = <<>> THEN fail("to: parse error", f2)
        ELSE IF v.err # "" THEN fail(v.err, f3)
        ELSE [err |-> "", flags |-> f3, heap |-> h2,
              config |-> [GrafanaAPIKey |-> f3.grafana_api_key,
                          SnapshotAPIKey |-> f3.snapshot_api_key,
                          GrafanaAddr |-> "u1", SnapshotAddr |-> "u2"],
              take |-> [DashSlug |-> f3.dashboard_slug, From |-> from, To |-> to,
                        Vars |-> [nil |-> FALSE, kv |-> v.kv],
                        Expires |-> f3.snapshot_expires,
                        SnapshotName |-> f3.snapshot_name]]

\* main: parseAndValidateFlags, exit on error; NewSnapClient and Take follow
ParseAndValidateFlags ==
    /\ cfgPhase = "flags"
    /\ LET r == parseAndValidateFlags(flags, heap) IN
         /\ flags' = r.flags
         /\ cliErr' = r.err
         /\ heap' = r.heap
         /\ heap0' = r.heap
         /\ callerCfg' = r.config
         /\ takeIn' = r.take
         /\ cfgPhase' = IF r.err = "" THEN "new" ELSE "exit"
         /\ takePhase' = IF r.err = "" THEN "new" ELSE "exit"
    /\ UNCHANGED <<client, cfgErr, again, touched, takeOut, takeErr, substVars,
                   pipeVars>>

-----------------------------------------------------------------------------
(* SnapClient.Take: the step of a target's range query *)

\* Durations are whole numbers of milliseconds.
Millisecond == 1
Second == 1000 * Millisecond

UnitMillis(u) ==
    IF u = <<"m", "s">> THEN Millisecond
    ELSE IF u = <<"s">> THEN Second
    ELSE IF u = <<"m">> THEN 60 * Second
    ELSE IF u = <<"h">> THEN 3600 * Second
    ELSE 0

RECURSIVE LeadingDigits(_)
LeadingDigits(s) ==
    IF s = <<>> \/ Head(s) \notin DigitChars THEN 0 ELSE 1 + LeadingDigits(Tail(s))

\* time.ParseDuration on "0" and on one "<digits><unit>" segment
ParseDuration(s) ==
    LET n == LeadingDigits(s)
        u == SubSeq(s, n + 1, Len(s))
    IN  IF s = <<"0">> THEN [err |-> "", d |-> 0]
        ELSE IF n = 0 \/ UnitMillis(u) = 0
             THEN [err |-> "time: invalid duration", d |-> 0]
        ELSE [err |-> "", d |-> Number(SubSeq(s, 1, n)) * UnitMillis(u)]

\* interval := time.Second * 30
DefaultInterval == 30 * Second

\* intervalFactor := float64(1), unless the target has one
intervalFactorOf(target) ==
    IF target.intervalFactor = <<>> THEN 1 ELSE target.intervalFactor[1]

\* the interval of a target: [err, d]
intervalOf(target) ==
    IF target.interval # <<>> /\ target.interval[1] # <<>>
    THEN ParseDuration(target.interval[1])
    ELSE [err |-> "", d |-> DefaultInterval]

\* step := interval.Seconds() * intervalFactor, in thousandths of a second
stepOf(target) == intervalOf(target).d * intervalFactorOf(target)

\* the conversion of a float64 to an integer drops the fraction
Truncate(n, d) == IF n >= 0 THEN n \div d ELSE -((-n) \div d)

\* Step: time.Duration(step) * time.Second, in whole seconds
rangeStep(step) == Truncate(step, Second)

-----------------------------------------------------------------------------
(* SnapClient.Take: series, samples and legends *)

\* A model.Metric is a sequence of <<label name, label value>> pairs in label
\* name order; a sample value is "NaN", "+Inf", "-Inf" or a decimal numeral.

\* metric[model.LabelName(name)]: the value of a label, "" when it has none
RECURSIVE LabelValue(_, _)
LabelValue(metric, name) ==
    IF metric = <<>> THEN <<>>
    ELSE IF Head(metric)[1] = name THEN Head(metric)[2]
    ELSE LabelValue(Tail(metric), name)

\* model.Metric.String: {name="value", ...}
RECURSIVE LabelPairs(_)
LabelPairs(metric) ==
    IF metric = <<>> THEN <<>>
    ELSE Head(metric)[1] \o <<"=", "\"">> \o Head(metric)[2] \o <<"\"">>
         \o (IF Len(metric) > 1 THEN <<",", " ">> ELSE <<>>)
         \o LabelPairs(Tail(metric))

MetricString(metric) == <<"{">> \o LabelPairs(metric) \o <<"}">>

RECURSIVE TrimLeft(_)
TrimLeft(s) == IF s # <<>> /\ Head(s) = " " THEN TrimLeft(Tail(s)) ELSE s

RECURSIVE TrimRight(_)
TrimRight(s) ==
    IF s # <<>> /\ s[Len(s)] = " " THEN TrimRight(SubSeq(s, 1, Len(s) - 1)) ELSE s

\* the first position from i on where p occurs in s, 0 when there is none
RECURSIVE FindFrom(_, _, _)
FindFrom(s, i, p) ==
    IF i + Len(p) - 1 > Len(s) THEN 0
    ELSE IF HasPrefixAt(s, i, p) THEN i
    ELSE FindFrom(s, i + 1, p)

\* aliasRe.ReplaceAllStringFunc(format, ...): every {{ name }} becomes the
\* value of the label of that name
RECURSIVE renderFrom(_, _, _)
renderFrom(format, i, metric) ==
    LET open == FindFrom(format, i, <<"{", "{">>)
        close == IF open = 0 THEN 0 ELSE FindFrom(format, open + 3, <<"}", "}">>)
    IN  IF close = 0 THEN SubSeq(format, i, Len(format))
        ELSE SubSeq(format, i, open - 1)
             \o LabelValue(metric, TrimRight(TrimLeft(SubSeq(format, open + 2, close - 1))))
             \o renderFrom(format, close + 2, metric)

renderTemplate(format, metric) == renderFrom(format, 1, metric)

\* math.IsNaN(float64(samplepair.Value))
IsNaN(v) == v = "NaN"

\* one sample as a [value, timestamp] pair; nil is "null"
datapointOf(samplepair) ==
    IF IsNaN(samplepair.v)
    THEN [v |-> "null", t |-> samplepair.t]
    ELSE [v |-> samplepair.v, t |-> samplepair.t]

\* the snapshotData of one stream: Target is filled in by Take
resultOf(stream) ==
    [Target |-> <<>>,
     Datapoints |-> [k \in 1..Len(stream.values) |-> datapointOf(stream.values[k])],
     Metric |-> stream.metric]

\* the result loop of fetchDataPointsPrometheus
resultsOf(matrix) == [k \in 1..Len(matrix) |-> resultOf(matrix[k])]

\* dp.Target of a series of a target
legendOf(target, dp) ==
    IF target.legendFormat # <<>> /\ target.legendFormat[1] # <<>>
    THEN renderTemplate(target.legendFormat[1], dp.Metric)
    ELSE MetricString(dp.Metric)

-----------------------------------------------------------------------------
(* SnapClient.Take: one target of a panel *)

\* An absent (or null) JSON field is <<>>, a present one is <<value>>.
Absent == <<>>
Some(v) == <<v>>

\* One HTTP request as Take sends it: query is Some([expr, start, end, step])
\* on a range query, body is Some(document) on a POST that carries one.
Request(kind, method, base, path, auth, query, body) ==
    [kind |-> kind, method |-> method, base |-> URLString(base), path |-> path,
     auth |-> auth, query |-> query, body |-> body]

\* query_templates[name] = strings.Replace(current_text, "+", "|", -1)
queryTemplates(list) ==
    [k \in 1..Len(list) |->
        [name |-> list[k].name, text |-> ReplaceAll(list[k].text, <<"+">>, <<"|">>)]]

TemplateRef(key) == <<"^", "[", "[">> \o key \o <<"]", "]", "$">>

\* the replacement of the template variables in a target's expr
RECURSIVE replaceTemplates(_, _)
replaceTemplates(query, templates) ==
    IF templates = <<>> THEN query
    ELSE LET key == Head(templates).name
             value == Head(templates).text
             q == IF FindFrom(query, 1, TemplateRef(key)) = 0 THEN query
                  ELSE IF value = <<"A", "l", "l">>
                       THEN ReplaceAll(query, TemplateRef(key), <<"^", ".", "*", "$">>)
                  ELSE ReplaceAll(query, TemplateRef(key), value)
         IN  replaceTemplates(q, Tail(templates))

\* what the datasource proxy answers to the range query of an expr
answerOf(expr) ==
    IF expr \in DOMAIN promResp THEN promResp[expr]
    ELSE [err |-> "bad_data: parse error", type |-> "matrix", matrix |-> <<>>]

\* fetchDataPointsPrometheus: the request it sends, its error and its series
fetchDataPointsPrometheus(config, target, datasource, step) ==
    LET req == Request("query", "GET", reqURLs.grafana,
                       <<"api/datasources/proxy", datasource.id, "api/v1/query_range">>,
                       client.config.GrafanaAPIKey,
                       Some([expr |-> target.expr[1], start |-> config.From[1],
                             end |-> config.To[1], step |-> rangeStep(step)]),
                       Absent)
        val == answerOf(target.expr[1])
    IN  IF val.err # "" THEN [req |-> req, err |-> val.err, dataPoints |-> <<>>]
        ELSE IF val.type # "matrix"
        THEN [req |-> req, err |-> "Unexpected value type", dataPoints |-> <<>>]
        ELSE [req |-> req, err |-> "", dataPoints |-> resultsOf(val.matrix)]

\* fetchDataPointsElastic: return nil, nil
fetchDataPointsElastic(config, target, datasource, step) ==
    [err |-> "", dataPoints |-> <<>>]

\* one call of a fetcher for target `at`: the matrix it was answered with (none
\* for Elasticsearch), the error and the series it returned
Call(at, type, matrix, f) ==
    [at |-> at, type |-> type, matrix |-> matrix, err |-> f.err,
     dataPoints |-> f.dataPoints]

\* the series of a target with their legends, ready to be appended
labelled(target, dataPoints) ==
    [k \in 1..Len(dataPoints) |->
        [dataPoints[k] EXCEPT !.Target = legendOf(target, dataPoints[k])]]

\* The traversal state of Take: the requests sent so far, the panels of the
\* dashboard as the loop has changed them, the snapshotData variable of the
\* panel at hand, the fetcher calls made, and how the traversal stands: out is "ok" while it runs,
\* "error" after a return nil, err and "panic" after a run-time panic, which
\* happened at panel where[1], target where[2].
Fail(st, out, err, at) == [st EXCEPT !.out = out, !.err = err, !.where = at]

EmptyList == [kind |-> "list", name |-> ""]

\* the end of the target loop's body: append the series and set the panel's
\* snapshotData, targets, links and datasource
insertSnapshotDataMut(st, i, target, dataPoints) ==
    LET snapshotData == labelled(target, dataPoints) IN
    [st EXCEPT !.sd = snapshotData,
               !.panels[i] = [@ EXCEPT !.snapshotData = Some(snapshotData),
                                       !.targets = Some(<<>>),
                                       !.links = Some(<<>>),
                                       !.datasource = EmptyList]]

insertSnapshotData(st, i, target, dataPoints) ==
    LET snapshotData == st.sd \o labelled(target, dataPoints) IN
    [st EXCEPT !.sd = snapshotData,
               !.panels[i] = [@ EXCEPT !.snapshotData = Some(snapshotData),
                                       !.targets = Some(<<>>),
                                       !.links = Some(<<>>),
                                       !.datasource = EmptyList]]

\* target["expr"] = actual_query, seen in the panel while it holds its targets
setExpr(st, i, j, query) ==
    IF st.panels[i].targets = Some(<<>>) THEN st
    ELSE [st EXCEPT !.panels[i].targets[1][j].expr = Some(query)]

\* switch datasource["type"].(string): the fetcher of a type, "" for default
fetcherOfMut(type) == IF type = "elasticsearch" THEN "elasticsearch" ELSE "prometheus"

fetcherOf(type) ==
    IF type = "prometheus" THEN "prometheus"
    ELSE IF type = "elasticsearch" THEN "elasticsearch"
    ELSE ""

\* the body of the loop over the targets of panel i, for target j
processTarget(st, i, j, target, datasourceName, datasourceMap, templates, config) ==
    IF intervalOf(target).err # ""
    THEN Fail(st, "error", intervalOf(target).err, <<i, j>>)
    ELSE IF datasourceName \notin DOMAIN datasourceMap
    THEN Fail(st, "panic", "interface conversion: interface {} is nil", <<i, j>>)
    ELSE IF target.expr = Absent
    THEN Fail(st, "panic", "interface conversion: interface {} is nil", <<i, j>>)
    ELSE
    LET step == stepOf(target)
        datasource == datasourceMap[datasourceName]
        actual_query == replaceTemplates(target.expr[1], templates)
        t == [target EXCEPT !.expr = Some(actual_query)]
        st1 == setExpr(st, i, j, actual_query)
    IN  IF fetcherOf(datasource.type) = "prometheus"
        THEN LET f == fetchDataPointsPrometheus(config, t, datasource, step)
                 st2 == [st1 EXCEPT
                           !.log = Append(@, f.req),
                           !.calls = Append(@, Call(<<i, j>>, "prometheus",
                                                    answerOf(actual_query).matrix, f))]
             IN  IF f.err # "" THEN Fail(st2, "error", f.err, <<i, j>>)
                 ELSE insertSnapshotData(st2, i, t, f.dataPoints)
        ELSE IF fetcherOf(datasource.type) = "elasticsearch"
        THEN LET f == fetchDataPointsElastic(config, t, datasource, step)
                 st2 == [st1 EXCEPT
                           !.calls = Append(@, Call(<<i, j>>, "elasticsearch", <<>>, f))]
             IN  IF f.err # "" THEN Fail(st2, "error", f.err, <<i, j>>)
                 ELSE insertSnapshotData(st2, i, t, f.dataPoints)
        ELSE st1

\* for _, t := range targets, from target j on
RECURSIVE processTargets(_, _, _, _, _, _, _, _)
processTargets(st, i, j, targets, datasourceName, datasourceMap, templates, config) ==
    IF j > Len(targets) \/ st.out # "ok" THEN st
    ELSE processTargets(
             processTarget(st, i, j, targets[j], datasourceName, datasourceMap,
                           templates, config),
             i, j + 1, targets, datasourceName, datasourceMap, templates, config)

\* the body of the loop over the panels, for panel i
processPanel(st, i, datasourceMap, templates, config) ==
    LET panel == st.panels[i]
        st0 == [st EXCEPT !.sd = <<>>]
    IN  IF panel.datasource.kind \in {"absent", "null"} THEN st0
        ELSE IF panel.datasource.kind # "string"
        THEN Fail(st0, "panic", "interface conversion: interface {} is not string", <<i, 0>>)
        ELSE IF panel.targets = Absent
        THEN Fail(st0, "panic", "interface conversion: interface {} is nil", <<i, 0>>)
        ELSE processTargets(st0, i, 1, panel.targets[1], panel.datasource.name,
                            datasourceMap, templates, config)

\* for _, p := range panels, from panel i on
RECURSIVE processPanels(_, _, _, _, _)
processPanels(st, i, datasourceMap, templates, config) ==
    IF i > Len(st.panels) \/ st.out # "ok" THEN st
    ELSE processPanels(processPanel(st, i, datasourceMap, templates, config),
                       i + 1, datasourceMap, templates, config)

-----------------------------------------------------------------------------
(* SnapClient.Take: the requests to Grafana *)

\* An answer of a server is [net, status, body]: net is the transport error of
\* http.Client.Do ("" when the exchange took place).
StatusOK == 200

\* Time.Unix() of a time of the model, which counts seconds from Epoch
Unix(t) == 1488153600 + t

\* strconv.FormatInt(t.UTC().Unix()*1000, 10): the product is an int64, and its
\* numeral is the ten digits of the seconds followed by three zeros
FormatMillis(t) == Decimal(Unix(t), 10) \o <<"0", "0", "0">>

\* getAnnotationsDef: the request, the error and the body text
getAnnotationsDef(config) ==
    LET req == Request("annotations", "GET", reqURLs.grafana,
                       <<"api/annotations?from=", FormatMillis(config.From[1]),
                         "&to=", FormatMillis(config.To[1])>>,
                       client.config.GrafanaAPIKey, Absent, Absent)
    IN  IF annResp.net # "" THEN [req |-> req, err |-> annResp.net, body |-> annResp.body]
        ELSE [req |-> req, err |-> "", body |-> annResp.body]

\* getDashboardDef: the error of Do is not returned, and resp.Body of the nil
\* response is then a nil pointer dereference
getDashboardDef(config) ==
    LET req == Request("dashboard", "GET", reqURLs.grafana,
                       <<dashboardPath \o config.DashSlug>>,
                       client.config.GrafanaAPIKey, Absent, Absent)
    IN  IF dashResp.net # ""
        THEN [req |-> req, out |-> "panic",
              err |-> "invalid memory address or nil pointer dereference",
              body |-> dashResp.body]
        ELSE [req |-> req, out |-> "ok", err |-> "", body |-> dashResp.body]

\* datasourceMap[ds["name"]] = ds for every ds of the list, in list order
RECURSIVE mapByName(_, _)
mapByName(datasources, n) ==
    IF n = 0 THEN <<>>
    ELSE (datasources[n].name[1] :> datasources[n]) @@ mapByName(datasources, n - 1)

\* getDatasourceDefs
getDatasourceDefs ==
    LET req == Request("datasources", "GET", reqURLs.grafana, <<"api/datasources">>,
                       client.config.GrafanaAPIKey, Absent, Absent)
        reply(out, err, m) == [req |-> req, out |-> out, err |-> err, map |-> m]
    IN  IF dsResp.net # "" THEN reply("error", dsResp.net, <<>>)
        ELSE IF dsResp.status # StatusOK
        THEN reply("error", "AUA Unexpected status code", <<>>)
        ELSE IF dsResp.body.kind # "array"
        THEN reply("error", "json: cannot unmarshal", <<>>)
        ELSE IF \E k \in 1..Len(dsResp.body.items) : dsResp.body.items[k].name = Absent
        THEN reply("panic", "interface conversion: interface {} is nil", <<>>)
        ELSE reply("ok", "", mapByName(dsResp.body.items, Len(dsResp.body.items)))

-----------------------------------------------------------------------------
(* SnapClient.Take: from the dashboard text to the posted snapshot *)

\* substituteVars on the dashboard text, as seen at the strings of the decoded
\* document that Take reads: the replacement happens inside each of them.
substituteDash(kv, order, body) ==
    LET sub(o) == IF o = Absent THEN Absent ELSE Some(substituteVars(kv, order, o[1]))
        subTarget(t) == [t EXCEPT !.expr = sub(@), !.interval = sub(@),
                                  !.legendFormat = sub(@)]
        subPanel(p) ==
            IF p.targets = Absent THEN p
            ELSE [p EXCEPT !.targets =
                     Some([j \in 1..Len(p.targets[1]) |-> subTarget(p.targets[1][j])])]
        subVar(v) == [name |-> sub(Some(v.name))[1], text |-> sub(Some(v.text))[1]]
        subDoc(d) ==
            [d EXCEPT
               !.panels = IF @ = Absent THEN Absent
                          ELSE Some([i \in 1..Len(@[1]) |-> subPanel(@[1][i])]),
               !.templating = IF @ = Absent THEN Absent
                              ELSE Some([k \in 1..Len(@[1]) |-> subVar(@[1][k])])]
    IN  IF body.kind # "object" \/ body.dashboard = Absent THEN body
        ELSE [body EXCEPT !.dashboard = Some(subDoc(@[1]))]

\* Time.Format(time.RFC3339Nano) of a whole second of UTC
FormatRFC3339(t) ==
    FormatDate(t) \o <<"T">> \o Decimal((t % SecondsPerDay) \div 3600, 2) \o <<":">>
    \o Decimal((t % 3600) \div 60, 2) \o <<":">> \o Decimal(t % 60, 2) \o <<"Z">>

\* json.Marshal refuses a float64 that is an infinity (or a NaN)
Unsupported(v) == v \in {"+Inf", "-Inf", "NaN"}

marshalFails(panels) ==
    \E i \in 1..Len(panels) :
        /\ panels[i].snapshotData # Absent
        /\ \E k \in 1..Len(panels[i].snapshotData[1]) :
             LET dps == panels[i].snapshotData[1][k].Datapoints IN
             \E n \in 1..Len(dps) : Unsupported(dps[n].v)

\* the snapshot map that Take marshals
snapshotOf(c, doc, panels, annotations) ==
    [dashboard |->
        [panels |-> panels,
         time |-> [from |-> FormatRFC3339(c.From[1]), to |-> FormatRFC3339(c.To[1])],
         annotations |-> [list |-> <<[enable |-> TRUE, name |-> "annotations & Alerts",
                                      snapshotData |-> annotations]>>],
         templating |-> doc.templating],
     expires |-> c.Expires \div Second,
     name |-> c.SnapshotName,
     meta |-> [isShotshot |-> TRUE, canAdmin |-> FALSE, type |-> "snapshot"]]

NoSnapshot == Absent

\* json.Unmarshal(body, &snapshotResponse): a field the body lacks stays ""
snapshotResponse(body) ==
    LET field(o) == IF o = Absent THEN "" ELSE o[1] IN
    [URL |-> field(body.url), Key |-> field(body.key),
     DeleteURL |-> field(body.deleteUrl), DeleteKey |-> field(body.deleteKey)]

\* resp.StatusCode != 200
postRefusedMut(status) == FALSE

postRefused(status) == status # StatusOK

\* how a call of Take ends: stage names the part of Take that ended it
\* ("done" when Take came to its last line)
Ended(stage, log, cache, state, err, where, snapshot) ==
    [log |-> log, cache |-> cache, calls |-> <<>>, panels |-> <<>>,
     res |-> [state |-> state, stage |-> stage, err |-> err, where |-> where,
              snapshot |-> snapshot]]

Nowhere == <<0, 0>>

\* the end of Take: marshal the snapshot, post it, decode the answer
postSnapshot(c, log, cache, doc, panels, annotations) ==
    LET snapshot == snapshotOf(c, doc, panels, annotations)
        b == IF marshalFails(panels) THEN Absent ELSE Some(snapshot)
        req == Request("snapshot", "POST", reqURLs.snapshot, <<"api/snapshots">>,
                       client.config.SnapshotAPIKey, Absent, b)
        sent == Append(log, req)
    IN  IF postResp.net # ""
        THEN Ended("post", sent, cache, "returned", postResp.net, Nowhere, NoSnapshot)
        ELSE IF postRefused(postResp.status)
        THEN Ended("post", sent, cache, "returned",
                   "Unexpected status code when posting snapshot", Nowhere, NoSnapshot)
        ELSE IF postResp.body.kind # "object"
        THEN Ended("post", sent, cache, "returned", "invalid character", Nowhere,
                   NoSnapshot)
        ELSE Ended("done", sent, cache, "returned", "", Nowhere,
                   Some(snapshotResponse(postResp.body)))

\* Take from the decoded dashboard on: the templates, the panels, the post
traverse(c, log, cache, dash, annotations) ==
    IF dash.kind # "object"
    THEN Ended("decode", log, cache, "returned", "Could not decode dashboard json",
               Nowhere, NoSnapshot)
    ELSE IF dash.dashboard = Absent
    THEN IF dash.message = Absent
         THEN Ended("decode", log, cache, "panic",
                    "interface conversion: interface {} is nil", Nowhere, NoSnapshot)
         ELSE Ended("decode", log, cache, "returned", dash.message[1], Nowhere, NoSnapshot)
    ELSE
    LET doc == dash.dashboard[1] IN
    IF doc.templating = Absent \/ doc.panels = Absent
    THEN Ended("shape", log, cache, "panic", "interface conversion: interface {} is nil",
               Nowhere, NoSnapshot)
    ELSE
    LET st == processPanels([log |-> log, panels |-> doc.panels[1], sd |-> <<>>,
                             calls |-> <<>>, out |-> "ok", err |-> "",
                             where |-> Nowhere],
                            1, cache, queryTemplates(doc.templating[1]), c)
        e == IF st.out = "error"
             THEN Ended("panels", st.log, cache, "returned", st.err, st.where, NoSnapshot)
             ELSE IF st.out = "panic"
             THEN Ended("panels", st.log, cache, "panic", st.err, st.where, NoSnapshot)
             ELSE IF doc.time = Absent
             THEN Ended("time", st.log, cache, "panic",
                        "interface conversion: interface {} is nil", Nowhere, NoSnapshot)
             ELSE postSnapshot(c, st.log, cache, doc, st.panels, annotations)
    IN  [e EXCEPT !.calls = st.calls, !.panels = st.panels]

\* The head of Take after processTakeConfig: the three fetches, and the
\* assignment of sc.datasourceCache.  ok says that all three went well; ended is
\* how Take ended when they did not.
fetchAll(c) ==
    LET a == getAnnotationsDef(c)
        d == getDashboardDef(c)
        s == getDatasourceDefs
        log1 == <<a.req>>
        log2 == <<a.req, d.req>>
        log3 == <<a.req, d.req, s.req>>
        stop(e) == [ok |-> FALSE, ended |-> e, log |-> e.log, map |-> <<>>,
                    body |-> d.body, items |-> <<>>]
    IN  IF a.err # ""
        THEN stop(Ended("annotations", log1, dsCache, "returned", a.err, Nowhere,
                        NoSnapshot))
        ELSE IF a.body.kind # "array"
        THEN stop(Ended("annotations", log1, dsCache, "returned",
                        "Could not decode annotation json", Nowhere, NoSnapshot))
        ELSE IF d.out = "panic"
        THEN stop(Ended("dashboard", log2, dsCache, "panic", d.err, Nowhere, NoSnapshot))
        ELSE IF s.out = "error"
        THEN stop(Ended("datasources", log3, dsCache, "returned", s.err, Nowhere,
                        NoSnapshot))
        ELSE IF s.out = "panic"
        THEN stop(Ended("datasources", log3, dsCache, "panic", s.err, Nowhere,
                        NoSnapshot))
        ELSE [ok |-> TRUE, ended |-> Ended("", log3, s.map, "", "", Nowhere, NoSnapshot),
              log |-> log3, map |-> s.map, body |-> d.body, items |-> a.body.items]

\* Take from the validated TakeConfig on: the three fetches, then the traversal
fetchAndTraverse(c, order) ==
    LET f == fetchAll(c) IN
    IF ~f.ok THEN f.ended
    ELSE traverse(c, f.log, f.map, substituteDash(c.Vars.kv, order, f.body), f.items)

\* the local variables of the calls of Take that run side by side: none
NoRuns == <<>>

NotRun ==
    [state |-> "none", stage |-> "", err |-> "", where |-> Nowhere,
     snapshot |-> NoSnapshot]

\* SnapClient.Take(config) on a client that NewSnapClient returned
Take ==
    /\ takePhase = "new"
    /\ cfgPhase = "validated"
    /\ takeRes = NotRun
    /\ LET r == processTakeConfig(takeIn) IN
         /\ takeOut' = r.cfg
         /\ takeErr' = r.err
         /\ takePhase' = IF r.err = "" THEN "validated" ELSE "rejected"
         /\ IF r.err # ""
            THEN /\ takeRes' = [NotRun EXCEPT !.state = "returned", !.stage = "config",
                                               !.err = r.err]
                 /\ UNCHANGED <<reqLog, calls, dsCache, dashPanels>>
            ELSE \E order \in Orders(r.cfg.Vars.kv) :
                   \E e \in {fetchAndTraverse(r.cfg, order)} :
                   /\ takeRes' = e.res
                   /\ reqLog' = reqLog \o e.log
                   /\ calls' = calls \o e.calls
                   /\ dsCache' = e.cache
                   /\ dashPanels' = e.panels
    /\ UNCHANGED <<takeIn, cfgVars, cliVars, substVars, envVars, run, lastStored>>

-----------------------------------------------------------------------------
(* Callers of Take, dashboards and servers *)

\* The configuration of a client for Grafana at http://g and a snapshot host
\* at http://s, with the URL objects as the caller built them.
ReadyConfig ==
    [GrafanaAPIKey |-> "k", SnapshotAPIKey |-> "z",
     GrafanaAddr |-> "u1", SnapshotAddr |-> "u2"]
ReadyHeap ==
    ("u1" :> [Scheme |-> Http, Host |-> HostG, Path |-> <<>>])
    @@ ("u2" :> [Scheme |-> Http, Host |-> HostS, Path |-> <<"/">>])

Target(expr, interval, intervalFactor, legendFormat) ==
    [expr |-> expr, interval |-> interval, intervalFactor |-> intervalFactor,
     legendFormat |-> legendFormat]

DsRef(kind, name) == [kind |-> kind, name |-> name]

Panel(datasource, targets) ==
    [datasource |-> datasource, targets |-> targets, links |-> Some(<<"docs">>),
     snapshotData |-> Absent]

Doc(templating, panels, time) ==
    [templating |-> templating, panels |-> panels, time |-> time]

RelativeTime ==
    Some([from |-> <<"n", "o", "w", "-", "6", "h">>, to |-> <<"n", "o", "w">>])

Answer(net, status, body) == [net |-> net, status |-> status, body |-> body]

\* dashboard answers
DashBody(dashboard, message) ==
    [kind |-> "object", dashboard |-> dashboard, message |-> message]
DashGarbage == [kind |-> "garbage", dashboard |-> Absent, message |-> Absent]
DashOf(doc) == Answer("", StatusOK, DashBody(Some(doc), Absent))

\* annotation answers
AnnGood == Answer("", StatusOK, [kind |-> "array", items |-> <<"deploy">>])

\* datasource answers
Datasource(id, name, type) == [id |-> id, name |-> name, type |-> type]
DsList ==
    <<Datasource(1, Some("p"), "prometheus"), Datasource(2, Some("e"), "elasticsearch"),
      Datasource(3, Some("o"), "influxdb")>>
DsGood == Answer("", StatusOK, [kind |-> "array", items |-> DsList])

\* range query answers
Exprs == {<<"a">>, <<"b">>}
Sample(v, t) == [v |-> v, t |-> t]
Stream(metric, values) == [metric |-> metric, values |-> values]
Matrix(m) == [err |-> "", type |-> "matrix", matrix |-> m]
MetricX == <<<<<<"i">>, <<"x">>>>>>
MetricY == <<<<<<"i">>, <<"y">>>>, <<<<"j">>, <<"z">>>>>>
StreamX == Stream(MetricX, <<Sample("1", 1000), Sample("2", 2000)>>)
StreamY == Stream(MetricY, <<Sample("3", 1000)>>)
PromGood == (<<"a">> :> Matrix(<<StreamX>>)) @@ (<<"b">> :> Matrix(<<StreamY, StreamX>>))

\* snapshot host answers
PostBody(url, key, deleteUrl, deleteKey) ==
    [kind |-> "object", url |-> url, key |-> key, deleteUrl |-> deleteUrl,
     deleteKey |-> deleteKey]
PostGarbage ==
    [kind |-> "garbage", url |-> Absent, key |-> Absent, deleteUrl |-> Absent,
     deleteKey |-> Absent]
PostGood ==
    Answer("", StatusOK, PostBody(Some("http://s/dashboard/snapshot/K"), Some("K"),
                                  Some("http://s/api/snapshots-delete/D"), Some("D")))

PipeIdle ==
    /\ annResp = AnnGood
    /\ dashResp = Answer("", StatusOK, DashGarbage)
    /\ dsResp = DsGood
    /\ promResp = PromGood
    /\ postResp = PostGood
    /\ reqLog = <<>>
    /\ takeRes = NotRun
    /\ calls = <<>>
    /\ dsCache = <<>>
    /\ dashPanels = <<>>
    /\ run = NoRuns
    /\ lastStored = 0

\* A client that NewSnapClient has returned for ReadyConfig.
ClientReady ==
    /\ heap = processConfig(ReadyConfig, ReadyHeap).heap
    /\ heap0 = ReadyHeap
    /\ callerCfg = ReadyConfig
    /\ client = [made |-> TRUE, config |-> processConfig(ReadyConfig, ReadyHeap).cfg]
    /\ cfgErr = ""
    /\ again = NotAgain
    /\ cfgPhase = "validated"
    /\ touched = FALSE

\* Nothing sent yet, and no datasource list cached.
Unsent ==
    /\ reqLog = <<>>
    /\ takeRes = NotRun
    /\ calls = <<>>
    /\ dsCache = <<>>
    /\ dashPanels = <<>>
    /\ run = NoRuns
    /\ lastStored = 0

MaxFactor == 2
Factors == {Absent} \cup {Some(n) : n \in -1..MaxFactor}
Intervals ==
    {Absent, Some(<<>>), Some(<<"0", "s">>), Some(<<"5", "0", "0", "m", "s">>),
     Some(<<"1", "5", "s">>), Some(<<"2", "m">>), Some(<<"1", "5">>)}

StepDocs ==
    {Doc(Some(<<>>),
         Some(<<Panel(DsRef("string", "p"), Some(<<Target(Some(<<"a">>), iv, f, Absent)>>))>>),
         RelativeTime) : iv \in Intervals, f \in Factors}

\* The TakeConfig of a caller who asks for the first six hours of the model.
ReadyTake ==
    [DashSlug |-> <<"d">>, From |-> <<0>>, To |-> <<TimeGrain>>, Vars |-> NilVars,
     Expires |-> 3600, SnapshotName |-> <<>>]

TargetA == Target(Some(<<"a">>), Absent, Absent, Absent)
TargetB ==
    Target(Some(<<"b">>), Some(<<"1", "5", "s">>), Some(2), Some(<<"{", "{", "i", "}", "}">>))
\* an interval without a unit, which time.ParseDuration refuses
TargetBad == Target(Some(<<"a">>), Some(<<"1", "5">>), Absent, Absent)
TargetNoExpr == Target(Absent, Absent, Absent, Absent)
\* a target with template references, of the dashboard and of the caller
TargetVar ==
    Target(Some(<<"^", "[", "[", "v", "]", "]", "$">>), Absent, Absent,
           Some(<<"$", "n", " ", "{", "{", " ", "j", " ", "}", "}">>))

TargetLists ==
    {Absent, Some(<<>>), Some(<<TargetA>>), Some(<<TargetA, TargetB>>), Some(<<TargetBad>>)}

\* "x" is a name the datasource list does not have
DsRefs ==
    {DsRef("absent", ""), DsRef("null", ""), DsRef("number", "")}
    \cup {DsRef("string", n) : n \in {"p", "e", "o", "x"}}

Panels == {Panel(d, t) : d \in DsRefs, t \in TargetLists}

MaxPanels == 2
PanelLists == UNION {[1..n -> Panels] : n \in 0..MaxPanels}

\* well-formed dashboards over every list of panels
TraversalDocs == {Doc(Some(<<>>), Some(pl), RelativeTime) : pl \in PanelLists}

PanelP(targets) == Panel(DsRef("string", "p"), Some(targets))

\* dashboards that lack a part, or that use template variables
TemplateVars ==
    {<<>>, <<[name |-> <<"v">>, text |-> <<"A", "l", "l">>]>>,
     <<[name |-> <<"v">>, text |-> <<"a">>]>>}
ShapeDocs ==
    {Doc(t, p, tm) :
        t \in {Absent} \cup {Some(l) : l \in TemplateVars},
        p \in {Absent, Some(<<PanelP(<<TargetA>>)>>), Some(<<PanelP(<<TargetNoExpr>>)>>),
               Some(<<PanelP(<<TargetVar>>)>>),
               Some(<<Panel(DsRef("string", "o"), Some(<<TargetNoExpr, TargetA>>))>>)},
        tm \in {Absent, RelativeTime}}

\* the statuses of the answers: 200, and a 404 or a 500
NotFound == {404}
ServerError == {500}
DashAnswers ==
    {Answer(net, status, body) :
        net \in {"", "dial tcp: connection refused"},
        status \in {StatusOK} \cup NotFound,
        body \in {DashGarbage, DashBody(Absent, Absent),
                  DashBody(Absent, Some("Dashboard not found")),
                  DashBody(Some(Doc(Some(<<>>), Some(<<PanelP(<<TargetA>>)>>), RelativeTime)),
                           Absent)}}

AnnAnswers ==
    {Answer(net, status, body) :
        net \in {"", "dial tcp: connection refused"},
        status \in {StatusOK} \cup ServerError,
        body \in {[kind |-> "array", items |-> <<"deploy">>],
                  [kind |-> "array", items |-> <<>>],
                  [kind |-> "object", items |-> <<>>],
                  [kind |-> "garbage", items |-> <<>>]}}

DsAnswers ==
    {Answer(net, status, body) :
        net \in {"", "dial tcp: connection refused"},
        status \in {StatusOK} \cup ServerError,
        body \in {[kind |-> "garbage", items |-> <<>>]}
                 \cup {[kind |-> "array", items |-> l] :
                          l \in {DsList, <<>>, <<Datasource(4, Some("p"), "influxdb")>>,
                                 <<Datasource(5, Absent, "prometheus")>>,
                                 <<Datasource(1, Some("p"), "influxdb"),
                                   Datasource(6, Some("p"), "prometheus")>>}}}

MaxSamples == 2
SampleValues == {"1", "NaN", "+Inf", "-Inf"}
SampleRuns ==
    UNION {{[k \in 1..n |-> Sample(v[k], 1000 * k)] : v \in [1..n -> SampleValues]} :
           n \in 1..MaxSamples}
PromAnswers ==
    {Matrix(<<>>), Matrix(<<StreamY, StreamX>>),
     [err |-> "server_error: 502", type |-> "matrix", matrix |-> <<>>],
     [err |-> "dial tcp: connection refused", type |-> "matrix", matrix |-> <<>>],
     [err |-> "", type |-> "vector", matrix |-> <<>>]}
    \cup {Matrix(<<Stream(MetricX, vs)>>) : vs \in SampleRuns}
PromWorlds ==
    {(<<"a">> :> a) @@ (<<"b">> :> b) :
        a \in PromAnswers,
        b \in {Matrix(<<StreamY, StreamX>>), Matrix(<<>>),
               [err |-> "server_error: 502", type |-> "matrix", matrix |-> <<>>]}}
QueryDocs ==
    {Doc(Some(<<>>), Some(pl), RelativeTime) :
        pl \in {<<PanelP(<<TargetA>>)>>, <<PanelP(<<TargetA, TargetB>>)>>,
                <<PanelP(<<TargetB, TargetA>>)>>,
                <<Panel(DsRef("string", "e"), Some(<<TargetA>>)), PanelP(<<TargetA>>)>>}}

PostAnswers ==
    {Answer(net, status, body) :
        net \in {"", "dial tcp: connection refused"},
        status \in {StatusOK} \cup ServerError,
        body \in {PostGarbage}
                 \cup {PostBody(u, k, du, dk) :
                          u \in {Absent, Some("http://s/dashboard/snapshot/K")},
                          k \in {Absent, Some("K")},
                          du \in {Absent, Some("http://s/api/snapshots-delete/D")},
                          dk \in {Absent, Some("D")}}}

\* the callers' TakeConfigs next to ReadyTake: without a From, and with a variable
TakeCallers ==
    {ReadyTake, [ReadyTake EXCEPT !.From = <<>>],
     [ReadyTake EXCEPT !.Vars = [nil |-> FALSE, kv |-> (<<"n">> :> <<"N">>)]],
     [ReadyTake EXCEPT !.Vars = [nil |-> FALSE, kv |-> (<<"n">> :> <<"{", "{", "i", "}", "}">>)]]}

\* the URL objects and the TakeConfigs of a library caller that calls
\* NewSnapClient and then Take on the client it got
LibraryURLs ==
    {EmptyURL, [Scheme |-> Http, Host |-> HostG, Path |-> <<>>],
     [Scheme |-> Http, Host |-> HostS, Path |-> <<"/">>]}
LibraryTakes ==
    TakeCallers
    \cup {[ReadyTake EXCEPT !.DashSlug = <<>>], [ReadyTake EXCEPT !.To = <<>>],
          [ReadyTake EXCEPT !.To = ReadyTake.From],
          [ReadyTake EXCEPT !.From = ReadyTake.To, !.To = ReadyTake.From]}

\* the calls of Take that a program makes side by side on one client
MaxCallers == 2
Callers == 1..MaxCallers

\* the datasource lists after a change: "p" is another datasource, "p" is
\* gone, "p" is of another type
DsChanged ==
    {Answer("", StatusOK, [kind |-> "array", items |-> l]) :
        l \in {<<Datasource(1, Some("p"), "influxdb"),
                 Datasource(6, Some("p"), "prometheus")>>,
               <<Datasource(2, Some("e"), "elasticsearch")>>,
               <<Datasource(4, Some("p"), "influxdb")>>}}
    \cup {Answer("", status, [kind |-> "garbage", items |-> <<>>]) :
             status \in ServerError}

-----------------------------------------------------------------------------
(* Calls of Take that run side by side on one SnapClient *)

\* the local variables of one call of Take: its position (pc), the validated
\* TakeConfig, the datasourceMap, dashboard text and annotations it fetched, the
\* requests and fetcher calls it made, how it ended, and sc.datasourceCache as
\* it was when its panel loop ran (seen)
IdleRun ==
    [pc |-> "idle", c |-> ZeroTakeConfig, datasourceMap |-> <<>>,
     body |-> DashGarbage, items |-> <<>>, order |-> <<>>, log |-> <<>>,
     calls |-> <<>>, res |-> NotRun, seen |-> <<>>]

\* datasourceMap[datasourceName] in the panel loop reads the local variable of
\* the call, not the field of the client
datasourceMapOfMut(local, cached) == cached

datasourceMapOf(local, cached) == local

\* Take of call k up to "sc.datasourceCache = datasourceMap"
TakeFetch(k) ==
    /\ run # NoRuns
    /\ run[k].pc = "idle"
    /\ cfgPhase = "validated"
    /\ LET r == processTakeConfig(takeIn) IN
         IF r.err # ""
         THEN /\ run' = [run EXCEPT ![k] =
                           [@ EXCEPT !.pc = "done",
                                     !.res = [NotRun EXCEPT !.state = "returned",
                                                            !.stage = "config",
                                                            !.err = r.err]]]
              /\ UNCHANGED <<reqLog, dsCache, lastStored>>
         ELSE \E f \in {fetchAll(r.cfg)} :
                IF ~f.ok
                THEN /\ run' = [run EXCEPT ![k] =
                                  [@ EXCEPT !.pc = "done", !.c = r.cfg, !.log = f.log,
                                            !.res = f.ended.res]]
                     /\ reqLog' = reqLog \o f.log
                     /\ UNCHANGED <<dsCache, lastStored>>
                ELSE /\ run' = [run EXCEPT ![k] =
                                  [@ EXCEPT !.pc = "fetched", !.c = r.cfg, !.log = f.log,
                                            !.datasourceMap = f.map, !.body = f.body,
                                            !.items = f.items]]
                     /\ reqLog' = reqLog \o f.log
                     /\ dsCache' = f.map
                     /\ lastStored' = k
    /\ UNCHANGED <<cfgVars, cliVars, takeVars, substVars, envVars, takeRes, calls,
                   dashPanels>>

\* Take of call k from substituteVars on: the panel loop and the POST
TakeFinish(k) ==
    /\ run # NoRuns
    /\ run[k].pc = "fetched"
    /\ \E order \in Orders(run[k].c.Vars.kv) :
         \E e \in {traverse(run[k].c, run[k].log,
                           datasourceMapOf(run[k].datasourceMap, dsCache),
                           substituteDash(run[k].c.Vars.kv, order, run[k].body),
                           run[k].items)} :
             /\ run' = [run EXCEPT ![k] =
                          [@ EXCEPT !.pc = "done", !.order = order, !.log = e.log,
                                    !.calls = e.calls, !.res = e.res, !.seen = dsCache]]
             /\ reqLog' = reqLog \o SubSeq(e.log, Len(run[k].log) + 1, Len(e.log))
             /\ calls' = calls \o e.calls
             /\ dashPanels' = e.panels
    /\ UNCHANGED <<cfgVars, cliVars, takeVars, substVars, envVars, takeRes, dsCache,
                   lastStored>>

\* An administrator of Grafana changes the datasources between two requests.
DatasourcesChange ==
    /\ run # NoRuns
    /\ dsResp = DsGood
    /\ dsResp' \in DsChanged
    /\ UNCHANGED <<cfgVars, cliVars, takeVars, substVars, annResp, dashResp, promResp,
                   postResp, reqLog, takeRes, calls, dsCache, dashPanels, run,
                   lastStored>>

-----------------------------------------------------------------------------
(* Specifications *)

CfgIdle(phase) ==
    /\ heap = [a \in Addrs |-> EmptyURL]
    /\ heap0 = heap
    /\ callerCfg = ZeroConfig
    /\ client = NoClient
    /\ cfgErr = ""
    /\ again = NotAgain
    /\ cfgPhase = phase
    /\ touched = FALSE

CliIdle ==
    /\ flags = NoFlags
    /\ cliErr = ""

TakeIdle(phase) ==
    /\ takeIn = ZeroTakeConfig
    /\ takeOut = ZeroTakeConfig
    /\ takeErr = ""
    /\ takePhase = phase

SubstIdle ==
    /\ subText = <<>>
    /\ subVars = <<>>
    /\ subOrder = <<>>
    /\ subOut = <<>>
    /\ subPhase = "idle"

\* A library caller builds URL objects and a Config, then calls NewSnapClient.
InitConfig ==
    /\ heap \in [Addrs -> URLs]
    /\ heap0 = heap
    /\ callerCfg \in Configs
    /\ client = NoClient
    /\ cfgErr = ""
    /\ again = NotAgain
    /\ cfgPhase = "new"
    /\ touched = FALSE
    /\ CliIdle /\ TakeIdle("idle") /\ SubstIdle /\ PipeIdle

\* processTakeConfig on a TakeConfig built by a library caller.
InitTakeConfig ==
    /\ takeIn \in TakeConfigs
    /\ takeOut = ZeroTakeConfig
    /\ takeErr = ""
    /\ takePhase = "new"
    /\ CfgIdle("none") /\ CliIdle /\ SubstIdle /\ PipeIdle

\* The command line program started with some flag values.
InitCLI ==
    /\ flags \in FlagSets
    /\ cliErr = ""
    /\ CfgIdle("flags") /\ TakeIdle("flags") /\ SubstIdle /\ PipeIdle

\* substituteVars on a dashboard text and a variable mapping.
InitSubst ==
    /\ subText \in Texts
    /\ subVars \in VarMaps
    /\ subOrder = <<>>
    /\ subOut = <<>>
    /\ subPhase = "new"
    /\ CfgIdle("idle") /\ CliIdle /\ TakeIdle("idle") /\ PipeIdle

\* Take on a dashboard of one Prometheus panel with one target, whose interval
\* and intervalFactor vary, over the time ranges a caller may ask for.
InitStep ==
    /\ ClientReady
    /\ takeIn \in [DashSlug : {<<"d">>}, From : OptTimes, To : OptTimes,
                   Vars : {NilVars}, Expires : {3600}, SnapshotName : {<<>>}]
    /\ takeOut = ZeroTakeConfig
    /\ takeErr = ""
    /\ takePhase = "new"
    /\ CliIdle /\ SubstIdle
    /\ annResp = AnnGood
    /\ dashResp \in {DashOf(doc) : doc \in StepDocs}
    /\ dsResp = DsGood
    /\ promResp = PromGood
    /\ postResp = PostGood
    /\ Unsent

\* what Take is given when every server answers well and one thing varies
GoodDoc == Doc(Some(<<>>), Some(<<PanelP(<<TargetA>>)>>), RelativeTime)
World(in, ann, dash, ds, prom, post) ==
    /\ takeIn = in
    /\ annResp = ann
    /\ dashResp = dash
    /\ dsResp = ds
    /\ promResp = prom
    /\ postResp = post

\* Take on a ready client: over the dashboards, over the answers to the range
\* queries, over the answers of each endpoint, over the callers.
InitTake ==
    /\ ClientReady
    /\ takeOut = ZeroTakeConfig
    /\ takeErr = ""
    /\ takePhase = "new"
    /\ CliIdle /\ SubstIdle
    /\ Unsent
    /\ \/ \E doc \in TraversalDocs :
            World(ReadyTake, AnnGood, DashOf(doc), DsGood, PromGood, PostGood)
       \/ \E doc \in ShapeDocs, in \in TakeCallers :
            World(in, AnnGood, DashOf(doc), DsGood, PromGood, PostGood)
       \/ \E doc \in QueryDocs, prom \in PromWorlds :
            World(ReadyTake, AnnGood, DashOf(doc), DsGood, prom, PostGood)
       \/ \E ann \in AnnAnswers, in \in TakeCallers :
            World(in, ann, DashOf(GoodDoc), DsGood, PromGood, PostGood)
       \/ \E dash \in DashAnswers :
            World(ReadyTake, AnnGood, dash, DsGood, PromGood, PostGood)
       \/ \E ds \in DsAnswers, doc \in QueryDocs :
            World(ReadyTake, AnnGood, DashOf(doc), ds, PromGood, PostGood)
       \/ \E post \in PostAnswers, doc \in QueryDocs :
            World(ReadyTake, AnnGood, DashOf(doc), DsGood, PromGood, post)

\* A library caller builds a Config and a TakeConfig, calls NewSnapClient and,
\* with the client it returned, Take; every server answers well.
InitLibrary ==
    /\ heap \in [Addrs -> LibraryURLs]
    /\ heap0 = heap
    /\ callerCfg \in Configs
    /\ client = NoClient
    /\ cfgErr = ""
    /\ again = NotAgain
    /\ cfgPhase = "new"
    /\ touched = FALSE
    /\ takeIn \in LibraryTakes
    /\ takeOut = ZeroTakeConfig
    /\ takeErr = ""
    /\ takePhase = "new"
    /\ CliIdle /\ SubstIdle
    /\ annResp = AnnGood
    /\ dashResp = DashOf(GoodDoc)
    /\ dsResp = DsGood
    /\ promResp = PromGood
    /\ postResp = PostGood
    /\ Unsent

\* A program holds one client and calls Take on it from several goroutines, for
\* one of the dashboards with queries, while the datasources may change.
InitCache ==
    /\ ClientReady
    /\ takeOut = ZeroTakeConfig
    /\ takeErr = ""
    /\ takePhase = "new"
    /\ CliIdle /\ SubstIdle
    /\ reqLog = <<>>
    /\ takeRes = NotRun
    /\ calls = <<>>
    /\ dsCache = <<>>
    /\ dashPanels = <<>>
    /\ run = [k \in Callers |-> IdleRun]
    /\ lastStored = 0
    /\ \E doc \in QueryDocs, in \in {ReadyTake, [ReadyTake EXCEPT !.From = <<>>]} :
         World(in, AnnGood, DashOf(doc), DsGood, PromGood, PostGood)

NextConfig == NewSnapClient \/ ProcessConfigAgain \/ CallerWritesURL
NextTakeConfig == TakeValidate
NextCLI == ParseAndValidateFlags \/ NewSnapClient \/ TakeValidate
NextSubst == SubstituteVars

SpecConfig == InitConfig /\ [][NextConfig]_vars
SpecTakeConfig == InitTakeConfig /\ [][NextTakeConfig]_vars
SpecCLI == InitCLI /\ [][NextCLI]_vars
SpecSubst == InitSubst /\ [][NextSubst]_vars
NextStep == Take
SpecStep == InitStep /\ [][NextStep]_vars
NextTake == Take
SpecTake == InitTake /\ [][NextTake]_vars
NextLibrary == NewSnapClient \/ Take
SpecLibrary == InitLibrary /\ [][NextLibrary]_vars
NextCache ==
    \/ \E k \in Callers : TakeFetch(k)
    \/ \E k \in Callers : TakeFinish(k)
    \/ DatasourcesChange
SpecCache == InitCache /\ [][NextCache]_vars

Init == InitConfig \/ InitTakeConfig \/ InitCLI \/ InitSubst \/ InitStep
        \/ InitTake \/ InitLibrary \/ InitCache
Next ==
    \/ ParseAndValidateFlags
    \/ NewSnapClient
    \/ ProcessConfigAgain
    \/ CallerWritesURL
    \/ TakeValidate
    \/ SubstituteVars
    \/ Take
    \/ \E k \in Callers : TakeFetch(k)
    \/ \E k \in Callers : TakeFinish(k)
    \/ DatasourcesChange
Spec == Init /\ [][Next]_vars

-----------------------------------------------------------------------------
(* Properties *)

returned == cfgPhase \in {"validated", "rejected"}

\* The caller left the field unset: a nil pointer, or a URL with nothing in it.
UnsetAddr(p) == p = Nil \/ heap0[p] = EmptyURL

EndsWithSlash(path) == Len(path) > 0 /\ path[Len(path)] = "/"

\* out is the URL in, but for a "/" added to a path that did not end with one
KeptWithSlash(out, in) ==
    /\ out.Scheme = in.Scheme
    /\ out.Host = in.Host
    /\ IF EndsWithSlash(in.Path) THEN out.Path = in.Path ELSE out.Path = in.Path \o <<"/">>

\* C1: processConfig returns an error if and only if GrafanaAddr is nil or empty
\* or GrafanaAPIKey is empty; in every other case, whatever the snapshot fields
\* hold, it returns a config and no error.
C1_ErrorIffRequiredMissing ==
    returned =>
        /\ (cfgErr # "") <=> (UnsetAddr(callerCfg.GrafanaAddr) \/ callerCfg.GrafanaAPIKey = "")
        /\ (cfgErr = "") <=> client.made
        /\ client.made => client.config # ZeroConfig

C1_Witness ==
    /\ cfgPhase = "rejected"
    /\ callerCfg.GrafanaAddr # Nil
    /\ callerCfg.GrafanaAPIKey # ""
    /\ callerCfg.SnapshotAddr # Nil
    /\ callerCfg.SnapshotAPIKey # ""

\* C2: every config processConfig returns is normalised: both paths end with "/",
\* SnapshotAddr equals GrafanaAddr when the input SnapshotAddr was unset,
\* SnapshotAPIKey equals GrafanaAPIKey when the input SnapshotAPIKey was unset, and
\* the fields that were set are otherwise kept as given.
C2_Normalised ==
    (cfgPhase = "validated" /\ ~touched) =>
        LET out == ConfigView(client.config, heap) IN
        /\ EndsWithSlash(out.GrafanaAddr.Path)
        /\ EndsWithSlash(out.SnapshotAddr.Path)
        /\ UnsetAddr(callerCfg.SnapshotAddr) => out.SnapshotAddr = out.GrafanaAddr
        /\ callerCfg.SnapshotAPIKey = "" => out.SnapshotAPIKey = out.GrafanaAPIKey
        /\ out.GrafanaAPIKey = callerCfg.GrafanaAPIKey
        /\ callerCfg.SnapshotAPIKey # "" => out.SnapshotAPIKey = callerCfg.SnapshotAPIKey
        /\ KeptWithSlash(out.GrafanaAddr, heap0[callerCfg.GrafanaAddr])
        /\ ~UnsetAddr(callerCfg.SnapshotAddr) =>
               KeptWithSlash(out.SnapshotAddr, heap0[callerCfg.SnapshotAddr])

C2_Witness ==
    /\ cfgPhase = "validated"
    /\ ~touched
    /\ callerCfg.SnapshotAddr # Nil
    /\ heap0[callerCfg.SnapshotAddr] = EmptyURL
    /\ callerCfg.SnapshotAPIKey = ""
    /\ heap0[callerCfg.GrafanaAddr].Path = <<>>
    /\ heap[client.config.SnapshotAddr].Path = <<"/">>

\* C3: whenever the Grafana base URL and the snapshot base URL of a validated
\* configuration are identical, its SnapshotAPIKey equals its GrafanaAPIKey, also
\* when the caller supplied another non-empty snapshot API key.
C3_SameAddrSameKey ==
    cfgPhase = "validated" =>
        (reqURLs.grafana = reqURLs.snapshot
            => client.config.SnapshotAPIKey = client.config.GrafanaAPIKey)

\* C4: processConfig is idempotent: applied to its own output it succeeds and
\* yields a config equal to that output in both URLs and both API keys.
C4_Idempotent ==
    again.done => (again.err = "" /\ again.second = again.first)

C4_Witness ==
    /\ again.done
    /\ heap0[callerCfg.GrafanaAddr].Path = <<>>
    /\ again.second.GrafanaAddr.Path = <<"/">>
    /\ callerCfg.SnapshotAPIKey = ""

\* C5: a validated configuration is immutable and owned by its SnapClient alone:
\* NewSnapClient leaves the caller's Config and URL objects as they were, and
\* nothing the caller does to those URL objects afterwards changes the addresses
\* the SnapClient uses in its Take calls.
C5_ConfigOwnedByClient ==
    [][/\ callerCfg' = callerCfg
       /\ cfgPhase = "new" => heap' = heap
       /\ cfgPhase = "validated" => reqURLs' = reqURLs]_vars

\* C6: processTakeConfig returns an error exactly when DashSlug is empty, From is
\* absent, To is absent, or From is not strictly before To; otherwise it returns
\* a TakeConfig with the same DashSlug, From and To and no error.
C6_TakeErrorIff ==
    takePhase \in {"validated", "rejected"} =>
        /\ (takeErr # "") <=>
               \/ takeIn.DashSlug = <<>>
               \/ takeIn.From = <<>>
               \/ takeIn.To = <<>>
               \/ takeIn.From[1] >= takeIn.To[1]
        /\ (takeErr = "") <=> (takePhase = "validated")
        /\ takePhase = "validated" =>
               /\ takeOut.DashSlug = takeIn.DashSlug
               /\ takeOut.From = takeIn.From
               /\ takeOut.To = takeIn.To

C6_Witness ==
    /\ takePhase = "rejected"
    /\ takeIn.DashSlug # <<>>
    /\ takeIn.From # <<>>
    /\ takeIn.To # <<>>
    /\ takeIn.From = takeIn.To

\* name is "YYYY-MM-DD", one space and slug, the date being the day of instant t
IsDateAndSlug(name, t, slug) ==
    /\ Len(name) = 11 + Len(slug)
    /\ \A i \in {1, 2, 3, 4, 6, 7, 9, 10} : name[i] \in DigitChars
    /\ name[5] = "-" /\ name[8] = "-" /\ name[11] = " "
    /\ SubSeq(name, 12, Len(name)) = slug
    /\ LET y == Number(SubSeq(name, 1, 4))
           m == Number(SubSeq(name, 6, 7))
           d == Number(SubSeq(name, 9, 10))
       IN  /\ m \in 1..12
           /\ d \in 1..DaysInMonth(y, m)
           /\ DaysFromEpoch(y, m, d) * SecondsPerDay <= t
           /\ t < (DaysFromEpoch(y, m, d) + 1) * SecondsPerDay

defaultNamed == takePhase = "validated" /\ takeIn.SnapshotName = <<>>

C8_DefaultNameFromFrom ==
    defaultNamed => IsDateAndSlug(takeOut.SnapshotName, takeIn.From[1], takeIn.DashSlug)

\* C9: every TakeConfig processTakeConfig accepts, and so every dashboard slug
\* Take puts into the dashboard request path, is non-empty and has no space in it.
C9_SlugWithoutSpace ==
    takePhase = "validated" =>
        /\ Len(takeOut.DashSlug) > 0
        /\ ~ContainsSpace(takeOut.DashSlug)
        /\ ~ContainsSpace(dashboardPath)

\* C10: substituteVars gives the same text for every iteration order of the
\* variable mapping, also for names of which one is a prefix of another and for
\* values that hold the $name of another variable.
C10_OrderIndependent ==
    subPhase = "done" =>
        \A o \in Orders(subVars) : substituteVars(subVars, o, subText) = subOut

\* the targets of the dashboard that Grafana answers with
askedTargets ==
    IF dashResp.body.dashboard = Absent \/ dashResp.body.dashboard[1].panels = Absent
    THEN {}
    ELSE LET panels == dashResp.body.dashboard[1].panels[1] IN
         UNION {IF panels[i].targets = Absent THEN {}
                ELSE {panels[i].targets[1][j] : j \in 1..Len(panels[i].targets[1])} :
                i \in 1..Len(panels)}

\* the range queries Take has sent
queries == {reqLog[k].query[1] : k \in {n \in 1..Len(reqLog) : reqLog[n].kind = "query"}}

noInterval(target) == target.interval = Absent \/ target.interval = Some(<<>>)

Ceil(n, d) == -((-n) \div d)

\* the step of the range formula: ceil(range / 500 * factor), and
\* ceil(range / 11000) when range / step exceeds 11000
rangeFormula(range, factor) ==
    LET step == Ceil(range * factor, 500) IN
    IF step = 0 \/ (step > 0 /\ range > 11000 * step) THEN Ceil(range, 11000) ELSE step

\* C11: the query of a target without an interval string carries the step
\* of the range formula (range / 500 * intervalFactor, raised to range / 11000
\* when that gives more than 11000 points), not one derived from 30 seconds
C11_RangeBasedStep ==
    \A q \in queries : \A target \in askedTargets :
        (noInterval(target) /\ target.expr = Some(q.expr))
        => q.step = rangeFormula(q.end - q.start, intervalFactorOf(target))

\* C12: no range query is sent with a step of zero or less
C12_StepPositive == \A q \in queries : q.step >= 1

isPost(r) == r.kind = "snapshot"

\* the POSTs to api/snapshots that Take has sent
posts == SelectSeq(reqLog, isPost)

\* the value a sample is claimed to get: null unless it is finite
claimedValue(v) == IF v \in {"NaN", "+Inf", "-Inf"} THEN "null" ELSE v

\* C13: fetchDataPointsPrometheus returns one series per stream and one
\* [value, timestamp] pair per sample, in the same order, and the value is
\* null for NaN, +Inf and -Inf and the number itself for a finite sample
C13_SamplesToPairs ==
    \A c \in 1..Len(calls) :
        (calls[c].type = "prometheus" /\ calls[c].err = "")
        => /\ Len(calls[c].dataPoints) = Len(calls[c].matrix)
           /\ \A k \in 1..Len(calls[c].matrix) :
                LET values == calls[c].matrix[k].values
                    pairs == calls[c].dataPoints[k].Datapoints
                IN  /\ Len(pairs) = Len(values)
                    /\ \A n \in 1..Len(values) :
                         /\ pairs[n].t = values[n].t
                         /\ pairs[n].v = claimedValue(values[n].v)

\* C14: a call of the Elasticsearch fetcher returns an error, so that Take
\* returns an error and posts nothing
C14_ElasticFails ==
    \A c \in 1..Len(calls) :
        calls[c].type = "elasticsearch"
        => /\ calls[c].err # ""
           /\ takeRes.state = "returned"
           /\ takeRes.err # ""
           /\ posts = <<>>

\* the panels of the dashboard that Grafana answers with
askedPanels ==
    IF dashResp.body.dashboard = Absent \/ dashResp.body.dashboard[1].panels = Absent
    THEN <<>>
    ELSE dashResp.body.dashboard[1].panels[1]

\* the places <<panel, target>> of the targets of that dashboard
targetsAt ==
    UNION {IF askedPanels[i].targets = Absent THEN {}
           ELSE {<<i, j>> : j \in 1..Len(askedPanels[i].targets[1])} :
           i \in 1..Len(askedPanels)}

targetAt(at) == askedPanels[at[1]].targets[1][at[2]]

\* place a comes after place b in the traversal
Later(a, b) == a[1] > b[1] \/ (a[1] = b[1] /\ a[2] > b[2])

\* Take came as far as the loop over the panels
traversed == takeRes.stage \in {"panels", "time", "post", "done"}

\* Take came to the target at a place, and Take went on beyond it
reached(at) ==
    traversed /\ (takeRes.stage = "panels" => (takeRes.where = at \/ Later(takeRes.where, at)))
passed(at) == traversed /\ (takeRes.stage = "panels" => Later(takeRes.where, at))

\* the type of the datasource that panel i names, "" when it names none of the list
typeOf(i) ==
    IF askedPanels[i].datasource.kind = "string"
       /\ askedPanels[i].datasource.name \in DOMAIN dsCache
    THEN dsCache[askedPanels[i].datasource.name].type
    ELSE ""

unsupported(at) == typeOf(at[1]) \notin {"", "prometheus", "elasticsearch"}
supported(at) == typeOf(at[1]) \in {"prometheus", "elasticsearch"}
called(at) == \E c \in 1..Len(calls) : calls[c].at = at
callsInOrder == \A c, d \in 1..Len(calls) : c < d => Later(calls[d].at, calls[c].at)

\* the target is skipped: Take goes on beyond it without a fetch for it, and
\* the later targets it goes beyond had their fetches, in order
skipped(at) ==
    /\ passed(at)
    /\ ~called(at)
    /\ callsInOrder
    /\ \A later \in targetsAt :
         (Later(later, at) /\ supported(later) /\ passed(later)) => called(later)

wellFormed(target) == intervalOf(target).err = "" /\ target.expr # Absent

succeeded == takeRes.state = "returned" /\ takeRes.err = "" /\ takeRes.snapshot # NoSnapshot

\* the series that the fetchers returned for the targets of panel i, in order
RECURSIVE returnedFrom(_, _)
returnedFrom(i, c) ==
    IF c > Len(calls) THEN <<>>
    ELSE (IF calls[c].at[1] = i THEN calls[c].dataPoints ELSE <<>>) \o returnedFrom(i, c + 1)

returnedSeries(i) == returnedFrom(i, 1)

\* panel i of the document that Take posted has its data and nothing to query with
embedded(i) ==
    /\ Len(posts) = 1
    /\ posts[1].body # Absent
    /\ LET panel == posts[1].body[1].dashboard.panels[i] IN
         /\ panel.snapshotData # Absent
         /\ Len(panel.snapshotData[1]) = Len(returnedSeries(i))
         /\ \A k \in 1..Len(returnedSeries(i)) :
              /\ panel.snapshotData[1][k].Datapoints = returnedSeries(i)[k].Datapoints
              /\ panel.snapshotData[1][k].Metric = returnedSeries(i)[k].Metric
         /\ panel.targets = Some(<<>>)
         /\ panel.links = Some(<<>>)
         /\ panel.datasource = EmptyList

hasTargets(i) == askedPanels[i].targets # Absent /\ askedPanels[i].targets # Some(<<>>)

\* C16: after a successful Take every panel of a known Prometheus datasource
\* with at least one target is, in the posted document, a panel whose
\* snapshotData holds one entry per returned series and whose targets, links
\* and datasource are empty lists
C16_PrometheusPanelEmbedded ==
    succeeded =>
        \A i \in 1..Len(askedPanels) :
            (typeOf(i) = "prometheus" /\ hasTargets(i)) => embedded(i)

\* panel i has no datasource reference that resolves: none, null, or a name
\* that the fetched list lacks
unresolvable(i) ==
    \/ askedPanels[i].datasource.kind \in {"absent", "null"}
    \/ /\ askedPanels[i].datasource.kind = "string"
       /\ askedPanels[i].datasource.name \notin DOMAIN dsCache

\* Take came to panel i, and Take went on beyond it
reachedPanel(i) == traversed /\ (takeRes.stage = "panels" => takeRes.where[1] >= i)
passedPanel(i) == traversed /\ (takeRes.stage = "panels" => takeRes.where[1] > i)

\* C17: a panel whose datasource is absent, null or a name outside the fetched
\* list is skipped: no fetch is made for it, and Take goes on beyond it
C17_UnresolvablePanelSkipped ==
    \A i \in 1..Len(askedPanels) :
        (unresolvable(i) /\ reachedPanel(i))
        => /\ passedPanel(i)
           /\ \A c \in 1..Len(calls) : calls[c].at[1] # i

\* C18: when Take ends in the traversal of the dashboard tree it has returned
\* an error and has posted nothing; it does not end in a panic
C18_TraversalFailureReturned ==
    takeRes.stage \in {"decode", "shape", "panels", "time"}
    => /\ takeRes.state = "returned"
       /\ takeRes.err # ""
       /\ posts = <<>>

success(status) == status \in 200..299

\* what one call of Take adds to the POSTs
newPosts == SubSeq(posts', Len(posts) + 1, Len(posts'))

\* C19: a call of Take sends at most one POST, to api/snapshots under the
\* snapshot address, and when the answer to it has a status that is no
\* success, Take returns an error and no Snapshot
C19_OnePostNoRetry ==
    [][/\ Len(newPosts) <= 1
       /\ \A k \in 1..Len(reqLog') : reqLog'[k].method = "POST" => isPost(reqLog'[k])
       /\ \A k \in 1..Len(newPosts) :
            /\ newPosts[k].base = URLString(reqURLs.snapshot)
            /\ newPosts[k].path = <<"api/snapshots">>
       /\ (Len(newPosts) = 1 /\ postResp.net = "" /\ ~success(postResp.status))
          => /\ takeRes'.state = "returned"
             /\ takeRes'.err # ""
             /\ takeRes'.snapshot = NoSnapshot]_vars

C19_Witness ==
    /\ Len(posts) = 1
    /\ postResp.net = ""
    /\ ~success(postResp.status)
    /\ takeRes.state = "returned"

allFour(body) ==
    /\ body.kind = "object"
    /\ body.url # Absent
    /\ body.key # Absent
    /\ body.deleteUrl # Absent
    /\ body.deleteKey # Absent

\* C20: Take returns a Snapshot only when the answer of the snapshot host
\* held all of url, key, deleteUrl and deleteKey, and an error otherwise
C20_AllFourFields ==
    (takeRes.stage \in {"post", "done"} /\ postResp.net = "" /\ success(postResp.status))
    => IF allFour(postResp.body)
       THEN takeRes.snapshot # NoSnapshot
       ELSE takeRes.snapshot = NoSnapshot /\ takeRes.err # ""

\* the TakeConfig is one that processTakeConfig rejects: no DashSlug, no From,
\* no To, or From not before To
invalidRequest ==
    \/ takeIn.DashSlug = <<>>
    \/ takeIn.From = <<>>
    \/ takeIn.To = <<>>
    \/ takeIn.From[1] >= takeIn.To[1]

\* the Config is one that processConfig rejects: no Grafana address or no key
invalidConfig ==
    AddrMissing(callerCfg.GrafanaAddr, heap0) \/ callerCfg.GrafanaAPIKey = ""

takeReturned == takeRes # NotRun

\* C21: a Take whose TakeConfig processTakeConfig rejects returns that error and
\* no snapshot, and no request of any kind (annotations, dashboard, datasources,
\* query, snapshot) has been issued; NewSnapClient on a Config that processConfig
\* rejects returns the error and no client, and no request has been issued.
C21_ConfigErrorsBeforeIO ==
    /\ (takeReturned /\ invalidRequest) =>
           /\ takeRes.state = "returned"
           /\ takeRes.err # ""
           /\ takeRes.err = takeErr
           /\ takeRes.snapshot = NoSnapshot
           /\ reqLog = <<>>
           /\ calls = <<>>
    /\ (cfgPhase # "new" /\ invalidConfig) =>
           /\ cfgPhase = "rejected"
           /\ cfgErr # ""
           /\ ~client.made
           /\ reqLog = <<>>
    /\ (cfgPhase = "validated" /\ ~takeReturned) => reqLog = <<>>

C21_Witness ==
    /\ client.made
    /\ takeReturned
    /\ takeIn.DashSlug # <<>>
    /\ takeIn.From = <<>>
    /\ takeRes.stage = "config"
    /\ reqLog = <<>>

\* a request of the kind is in the log
asked(kind) == \E k \in 1..Len(reqLog) : reqLog[k].kind = kind

\* the endpoint answered, and with a status outside 200..299
nonOK(resp) == resp.net = "" /\ ~success(resp.status)

\* Take returned an error and no snapshot
failed ==
    /\ takeRes.state = "returned"
    /\ takeRes.err # ""
    /\ takeRes.snapshot = NoSnapshot

\* a range query was answered with an error status of the proxy
queryRefused ==
    \E q \in queries : LET val == answerOf(q.expr) IN val.err # ""

\* C22: when an endpoint that Take called (annotations, dashboard, datasources,
\* range query) answered with a non-2xx status, Take returns an error and no
\* snapshot and no POST was sent, whatever the body was; when the snapshot host
\* answered the POST with a non-2xx status, Take returns an error and no snapshot.
C22_NonOKFatal ==
    takeReturned =>
        /\ (asked("annotations") /\ nonOK(annResp)) => (failed /\ posts = <<>>)
        /\ (asked("dashboard") /\ nonOK(dashResp)) => (failed /\ posts = <<>>)
        /\ (asked("datasources") /\ nonOK(dsResp)) => (failed /\ posts = <<>>)
        /\ queryRefused => (failed /\ posts = <<>>)
        /\ (asked("snapshot") /\ nonOK(postResp)) => failed

\* the answer that the endpoint of a kind of request gives
answerTo(kind) ==
    CASE kind = "annotations" -> annResp
      [] kind = "dashboard" -> dashResp
      [] kind = "datasources" -> dsResp
      [] kind = "snapshot" -> postResp

\* the positions of the requests of a kind in the log
sentAt(kind) == {k \in 1..Len(reqLog) : reqLog[k].kind = kind}

\* the request of the kind was sent once, and nothing after it
sentOnceAndLast(kind) == sentAt(kind) = {Len(reqLog)}

\* the positions of the range queries that met a connection failure
unansweredQueries ==
    {k \in sentAt("query") :
        answerOf(reqLog[k].query[1].expr).err = "dial tcp: connection refused"}

\* C23: when a request of Take met a connection failure, Take returns an error
\* and no snapshot, the request was sent once, and it is the last request of the
\* call; this for the annotations, dashboard, datasources and snapshot requests
\* and for the range queries.
C23_TransportFailureReturned ==
    takeReturned =>
        /\ \A kind \in {"annotations", "dashboard", "datasources", "snapshot"} :
               (asked(kind) /\ answerTo(kind).net # "") =>
                   (failed /\ sentOnceAndLast(kind))
        /\ unansweredQueries # {} =>
               (failed /\ unansweredQueries = {Len(reqLog)})

\* the series of a list of snapshotData entries without their legends
bare(series) ==
    [k \in 1..Len(series) |->
        [Datapoints |-> series[k].Datapoints, Metric |-> series[k].Metric]]

\* panel i has a datasource of a supported type and several targets
severalTargets(i) ==
    /\ typeOf(i) \in {"prometheus", "elasticsearch"}
    /\ askedPanels[i].targets # Absent
    /\ Len(askedPanels[i].targets[1]) >= 2

\* C24: once the panel loop of Take has gone through a panel of a supported
\* datasource with several targets, a fetcher was called for each of its
\* targets and the panel's snapshotData is the series those calls returned, in
\* target order and within a target in the order returned: nothing of an
\* earlier target is lost and nothing of another panel is in it.
C24_TargetsAccumulate ==
    takeReturned =>
        \A i \in 1..Len(askedPanels) :
            (passedPanel(i) /\ severalTargets(i)) =>
                /\ \A j \in 1..Len(askedPanels[i].targets[1]) : called(<<i, j>>)
                /\ callsInOrder
                /\ dashPanels[i].snapshotData # Absent
                /\ bare(dashPanels[i].snapshotData[1]) = bare(returnedSeries(i))

C24_Witness ==
    /\ takeReturned
    /\ \E i \in 1..Len(askedPanels) :
         /\ passedPanel(i) /\ severalTargets(i)
         /\ \A j \in 1..Len(askedPanels[i].targets[1]) :
              \E c \in 1..Len(calls) : calls[c].at = <<i, j>> /\ calls[c].dataPoints # <<>>
         /\ Len(dashPanels[i].snapshotData[1]) >= 3

\* the panel can still be queried live: it has targets or names a datasource
wired(panel) == panel.targets # Some(<<>>) \/ panel.datasource.kind = "string"

\* the documents that Take has posted
postedDocs == {posts[k].body[1] : k \in {n \in 1..Len(posts) : posts[n].body # Absent}}

\* C25: in every document that Take posts every panel has an empty target list
\* and no datasource name
C25_NoPanelLeftWired ==
    \A doc \in postedDocs :
        \A i \in 1..Len(doc.dashboard.panels) : ~wired(doc.dashboard.panels[i])

\* Take came to json.Marshal with a document that json.Marshal refuses
unserializable ==
    /\ takeRes.stage \in {"post", "done"}
    /\ marshalFails(dashPanels)

\* C26: every POST that Take sends carries the serialized snapshot, and when
\* serializing the document fails Take returns an error and sends no POST
C26_PostOnlySerialized ==
    /\ \A k \in 1..Len(posts) : posts[k].body # Absent
    /\ (takeReturned /\ unserializable) => (failed /\ posts = <<>>)

\* call k of Take came to its panel loop and ended
finished(k) ==
    /\ run[k].pc = "done"
    /\ run[k].res.stage \notin {"config", "annotations", "dashboard", "datasources"}

\* what call k would have done on a client of its own, given the answers it got
alone(k) ==
    traverse(run[k].c, SubSeq(run[k].log, 1, 3), run[k].datasourceMap,
             substituteDash(run[k].c.Vars.kv, run[k].order, run[k].body),
             run[k].items)

\* the range queries of call k, and its calls of the Prometheus fetcher
queriesOf(k) == SelectSeq(run[k].log, LAMBDA r : r.kind = "query")
prometheusCalls(k) == SelectSeq(run[k].calls, LAMBDA c : c.type = "prometheus")

\* the datasource that the list call k fetched has for the panel of a call
ownDatasource(k, call) == run[k].datasourceMap[askedPanels[call.at[1]].datasource.name]

\* C27: a call of Take that runs beside others on one client ends as it would
\* on a client of its own (same result, requests and fetcher calls), every
\* fetcher it calls is the one of the type, and every range query goes to the
\* proxy of the id, that the datasource list it fetched itself has for the
\* panel's datasource name; and the cache is the map of the call that
\* assigned it last.
C27_CallsDoNotMeetInCache ==
    run # NoRuns =>
        /\ \A k \in Callers :
             finished(k) =>
                 /\ run[k].res = alone(k).res
                 /\ run[k].log = alone(k).log
                 /\ run[k].calls = alone(k).calls
                 /\ \A n \in 1..Len(run[k].calls) :
                      /\ askedPanels[run[k].calls[n].at[1]].datasource.name
                             \in DOMAIN run[k].datasourceMap
                      /\ run[k].calls[n].type = ownDatasource(k, run[k].calls[n]).type
                 /\ Len(queriesOf(k)) = Len(prometheusCalls(k))
                 /\ \A n \in 1..Len(queriesOf(k)) :
                      queriesOf(k)[n].path[2] = ownDatasource(k, prometheusCalls(k)[n]).id
        /\ dsCache = IF lastStored = 0 THEN <<>> ELSE run[lastStored].datasourceMap

\* two calls ended, the first after the second had replaced the cache by
\* another map, and the first sent a range query
C27_Witness ==
    /\ run # NoRuns
    /\ finished(1) /\ finished(2)
    /\ run[1].seen = run[2].datasourceMap
    /\ run[1].datasourceMap # run[2].datasourceMap
    /\ "p" \in DOMAIN run[2].datasourceMap
    /\ Len(queriesOf(1)) >= 1
    /\ run[1].res.stage = "done"

====
